---- MODULE Spec2Model ----
(***************************************************************************)
(* Model of the tytle-enclaves attested-fetch services.                    *)
(*                                                                         *)
(* Spec      : the enclave accept loop (startEnclave / handleConnection)   *)
(*             with the generic request handler, the VIES, SICAE and       *)
(*             Stripe custom handlers, the outbound fetch and the          *)
(*             attestor, one action per step between two blocking calls.   *)
(* FairSpec  : Spec with weak fairness on the steps of the loop.           *)
(* FrameSpec : writeMessage / readMessage / readExact over a byte stream   *)
(*             that splits the bytes into short writes and short reads.    *)
(***************************************************************************)
EXTENDS Integers, Sequences, FiniteSets, TLC

\* ------------------------------------------------------------------------
\* Bounds of the model
\* ------------------------------------------------------------------------
MaxConns == 2
MaxAcceptFails == 1
MaxMsgs == 2
MaxShort == 1
MaxCalls == 2
MaxChunks == 2

\* ------------------------------------------------------------------------
\* Program constants
\* ------------------------------------------------------------------------
VSOCK_PORT == 5000
HOST_CID == 3
HEADER_SIZE == 4
MAX_MESSAGE_SIZE == 16777216
READ_CHUNK == 65536

\* ------------------------------------------------------------------------
\* Option values: <<>> is "absent" (undefined), <<v>> is "present v"
\* ------------------------------------------------------------------------
None == <<>>
Some(v) == <<v>>
IsSome(o) == Len(o) = 1
Get(o) == o[1]

\* A JavaScript value that is undefined (a missing property of a parsed body)
Undefined == "<undefined>"
Falsy(v) == v \in {Undefined, ""}

\* ------------------------------------------------------------------------
\* node:crypto and Buffer conversions, as injective symbolic terms over
\* strings (SHA-256 and hex are library code; only their inputs matter)
\* ------------------------------------------------------------------------
Sha256Hex(s) == "sha256(" \o s \o ")"
HexToBytes(h) == "bytes(" \o h \o ")"
Base64(b) == "base64(" \o b \o ")"

Digit(d) ==
  CASE d = 0 -> "0" [] d = 1 -> "1" [] d = 2 -> "2" [] d = 3 -> "3"
    [] d = 4 -> "4" [] d = 5 -> "5" [] d = 6 -> "6" [] d = 7 -> "7"
    [] d = 8 -> "8" [] d = 9 -> "9"

\* `${n}` of a non-negative integer: its decimal digits
RECURSIVE Decimal(_)
Decimal(n) == IF n < 10 THEN Digit(n) ELSE Decimal(n \div 10) \o Digit(n % 10)

\* JSON.stringify of a mapping of strings, keys in insertion order
RECURSIVE JsonPairs(_)
JsonPairs(h) ==
  IF h = <<>> THEN ""
  ELSE "\"" \o h[1][1] \o "\":\"" \o h[1][2] \o "\""
       \o (IF Len(h) > 1 THEN "," ELSE "") \o JsonPairs(Tail(h))
JsonStringify(h) == "{" \o JsonPairs(h) \o "}"

\* ------------------------------------------------------------------------
\* Enclave configurations (the compile-time allowlists)
\* ------------------------------------------------------------------------
VIES_HOST == [hostname |-> "ec.europa.eu", vsockProxyPort |-> 8443, tls |-> TRUE]
HMRC_HOST == [hostname |-> "api.service.hmrc.gov.uk", vsockProxyPort |-> 8444, tls |-> TRUE]
SICAE_HOST == [hostname |-> "www.sicae.pt", vsockProxyPort |-> 8445, tls |-> FALSE]
STRIPE_HOST == [hostname |-> "api.stripe.com", vsockProxyPort |-> 8446, tls |-> TRUE]

\* The enclave images of the repository: the config each passes to startEnclave
\* (or, for the stand-alone VIES image, its ALLOWED_HOSTS) and the handler
\* that `config.customHandler || createRequestHandler(config)` selects.
Services == {"vies", "vies-standalone", "sicae", "sicae-custom", "stripe-payment"}

Config(s) ==
  CASE s = "vies" ->
         [name |-> "vies", hosts |-> <<VIES_HOST, HMRC_HOST>>, handler |-> "vies"]
    [] s = "vies-standalone" ->
         [name |-> "vies", hosts |-> <<VIES_HOST, HMRC_HOST>>, handler |-> "generic"]
    [] s = "sicae" ->
         [name |-> "sicae", hosts |-> <<SICAE_HOST>>, handler |-> "generic"]
    [] s = "sicae-custom" ->
         [name |-> "sicae", hosts |-> <<SICAE_HOST>>, handler |-> "sicae"]
    [] s = "stripe-payment" ->
         [name |-> "stripe-payment", hosts |-> <<STRIPE_HOST>>, handler |-> "stripe"]

AllowedHostnames(s) == {Config(s).hosts[i].hostname : i \in 1..Len(Config(s).hosts)}

\* ------------------------------------------------------------------------
\* URLs: `new URL(u)` on the URLs the model sends (the WHATWG parser
\* lower-cases the host and splits pathname from search)
\* ------------------------------------------------------------------------
Urls ==
  { "https://ec.europa.eu/taxation_customs/vies/services/checkVatService",
    "https://api.service.hmrc.gov.uk/organisations/vat/check-vat-number/lookup/1?x=1",
    "http://www.sicae.pt/Consulta.aspx",
    "https://api.stripe.com/v1/charges",
    "https://EC.EUROPA.EU/a",
    "https://ec.europa.eu.evil.example/a",
    "not a url" }

ParseUrl(u) ==
  CASE u = "https://ec.europa.eu/taxation_customs/vies/services/checkVatService" ->
         [ok |-> TRUE, hostname |-> "ec.europa.eu",
          pathname |-> "/taxation_customs/vies/services/checkVatService", search |-> ""]
    [] u = "https://api.service.hmrc.gov.uk/organisations/vat/check-vat-number/lookup/1?x=1" ->
         [ok |-> TRUE, hostname |-> "api.service.hmrc.gov.uk",
          pathname |-> "/organisations/vat/check-vat-number/lookup/1", search |-> "?x=1"]
    [] u = "http://www.sicae.pt/Consulta.aspx" ->
         [ok |-> TRUE, hostname |-> "www.sicae.pt", pathname |-> "/Consulta.aspx", search |-> ""]
    [] u = "https://api.stripe.com/v1/charges" ->
         [ok |-> TRUE, hostname |-> "api.stripe.com", pathname |-> "/v1/charges", search |-> ""]
    [] u = "https://EC.EUROPA.EU/a" ->
         [ok |-> TRUE, hostname |-> "ec.europa.eu", pathname |-> "/a", search |-> ""]
    [] u = "https://ec.europa.eu.evil.example/a" ->
         [ok |-> TRUE, hostname |-> "ec.europa.eu.evil.example", pathname |-> "/a", search |-> ""]
    [] u = "https://api.service.hmrc.gov.uk/organisations/vat/check-vat-number/lookup/12/34" ->
         [ok |-> TRUE, hostname |-> "api.service.hmrc.gov.uk",
          pathname |-> "/organisations/vat/check-vat-number/lookup/12/34", search |-> ""]
    [] u = "https://api.service.hmrc.gov.uk/organisations/vat/check-vat-number/lookup/12%2F34" ->
         [ok |-> TRUE, hostname |-> "api.service.hmrc.gov.uk",
          pathname |-> "/organisations/vat/check-vat-number/lookup/12%2F34", search |-> ""]
    [] u = "https://api.stripe.com/v1/charges?limit=3" ->
         [ok |-> TRUE, hostname |-> "api.stripe.com", pathname |-> "/v1/charges",
          search |-> "?limit=3"]
    [] u = "https://api.stripe.com/v1/accounts/acct_1" ->
         [ok |-> TRUE, hostname |-> "api.stripe.com", pathname |-> "/v1/accounts/acct_1",
          search |-> ""]
    [] OTHER ->
         [ok |-> FALSE, hostname |-> "", pathname |-> "", search |-> ""]

\* ------------------------------------------------------------------------
\* Enclave requests (EnclaveRequest) as read from the vsock connection
\* ------------------------------------------------------------------------
HeaderSets ==
  { <<>>,
    << <<"host", "evil.example">> >>,
    << <<"Host", "evil.example">>, <<"Accept", "text/xml">> >>,
    << <<"connection", "keep-alive">>, <<"Connection", "keep-alive">> >> }

BODY_PT == "{\"countryCode\":\"PT\",\"vatNumber\":\"507172230\"}"
BODY_GB == "{\"countryCode\":\"GB\",\"vatNumber\":\"12/34\"}"
BODY_CC_ONLY == "{\"countryCode\":\"PT\"}"
BODY_CC_LONG == "{\"countryCode\":\"PTPTPTPTPTPTPTPTPTPTPTPTPTPTPTPT\",\"vatNumber\":\"1\"}"
BODY_NIF == "{\"nif\":\"513032525\"}"
BODY_NIF_BAD == "{\"nif\":\"12AB\"}"
BODY_STRIPE_LIST == "{\"operation\":\"list_charges\",\"apiKey\":\"sk_test\",\"queryParams\":{\"limit\":\"3\"}}"
BODY_STRIPE_GET == "{\"operation\":\"get_account\",\"apiKey\":\"sk_test\",\"stripeAccount\":\"acct_1\",\"resourceId\":\"acct_1\"}"
BODY_STRIPE_BADOP == "{\"operation\":\"delete_all\",\"apiKey\":\"sk_test\"}"
BODY_STRIPE_NOKEY == "{\"operation\":\"list_charges\"}"
BODY_GARBAGE == "not json"

Bodies ==
  { BODY_PT, BODY_GB, BODY_CC_ONLY, BODY_CC_LONG, BODY_NIF, BODY_NIF_BAD,
    BODY_STRIPE_LIST, BODY_STRIPE_GET, BODY_STRIPE_BADOP, BODY_STRIPE_NOKEY,
    BODY_GARBAGE }

NoFields ==
  [ok |-> TRUE, countryCode |-> Undefined, vatNumber |-> Undefined, nif |-> Undefined,
   operation |-> Undefined, apiKey |-> Undefined, stripeAccount |-> Undefined,
   resourceId |-> Undefined, queryParams |-> <<>>]

\* JSON.parse(request.body || '{}') followed by the property reads of the handlers
ParseBody(b) ==
  IF b = None \/ b = Some("") THEN NoFields
  ELSE CASE Get(b) = BODY_PT ->
              [NoFields EXCEPT !.countryCode = "PT", !.vatNumber = "507172230"]
         [] Get(b) = BODY_GB ->
              [NoFields EXCEPT !.countryCode = "GB", !.vatNumber = "12/34"]
         [] Get(b) = BODY_CC_ONLY ->
              [NoFields EXCEPT !.countryCode = "PT"]
         [] Get(b) = BODY_CC_LONG ->
              [NoFields EXCEPT !.countryCode = "PTPTPTPTPTPTPTPTPTPTPTPTPTPTPTPT",
                               !.vatNumber = "1"]
         [] Get(b) = BODY_NIF ->
              [NoFields EXCEPT !.nif = "513032525"]
         [] Get(b) = BODY_NIF_BAD ->
              [NoFields EXCEPT !.nif = "12AB"]
         [] Get(b) = BODY_STRIPE_LIST ->
              [NoFields EXCEPT !.operation = "list_charges", !.apiKey = "sk_test",
                               !.queryParams = << <<"limit", "3">> >>]
         [] Get(b) = BODY_STRIPE_GET ->
              [NoFields EXCEPT !.operation = "get_account", !.apiKey = "sk_test",
                               !.stripeAccount = "acct_1", !.resourceId = "acct_1"]
         [] Get(b) = BODY_STRIPE_BADOP ->
              [NoFields EXCEPT !.operation = "delete_all", !.apiKey = "sk_test"]
         [] Get(b) = BODY_STRIPE_NOKEY ->
              [NoFields EXCEPT !.operation = "list_charges"]
         [] OTHER ->
              [NoFields EXCEPT !.ok = FALSE]

\* The JSON value of a request frame: an EnclaveRequest object, or JSON null
NullRequest ==
  [isNull |-> TRUE, id |-> "", url |-> "", method |-> "", headers |-> <<>>, body |-> None]

Requests ==
  [isNull : {FALSE}, id : {"r1"}, url : Urls, method : {"GET"},
   headers : HeaderSets, body : {None}]
  \cup
  [isNull : {FALSE}, id : {"r1"},
   url : {"https://ec.europa.eu/taxation_customs/vies/services/checkVatService",
          "https://api.stripe.com/v1/charges"},
   method : {"POST"}, headers : {<<>>}, body : {Some(b) : b \in Bodies}]
  \cup
  {NullRequest}

\* ------------------------------------------------------------------------
\* Enclave responses (EnclaveResponse)
\* ------------------------------------------------------------------------
\* A failure reply that leaves `error` out
FailureNoError(status, headers, msg) ==
  [success |-> FALSE, status |-> status, headers |-> headers, rawBody |-> "",
   error |-> None, attestation |-> None]

Failure(status, headers, msg) ==
  [success |-> FALSE, status |-> status, headers |-> headers, rawBody |-> "",
   error |-> Some(msg), attestation |-> None]

Success(status, headers, rawBody, attestation) ==
  [success |-> TRUE, status |-> status, headers |-> headers, rawBody |-> rawBody,
   error |-> None, attestation |-> Some(attestation)]

\* ------------------------------------------------------------------------
\* Outbound HTTP through the host's vsock-proxy (proxyFetch, proxyFetchPlain)
\* ------------------------------------------------------------------------
HasKey(h, k) == \E i \in 1..Len(h) : h[i][1] = k

\* { ...headers, k: v }: an existing own key keeps its place and takes the
\* new value, a new key goes last (keys are compared exactly)
Overlay(h, k, v) ==
  IF HasKey(h, k)
  THEN [i \in 1..Len(h) |-> IF h[i][1] = k THEN <<k, v>> ELSE h[i]]
  ELSE Append(h, <<k, v>>)

\* The header lines of the serialised request
RequestHeaderLines(hostname, headers, body) ==
  Overlay(Overlay(headers, "Host", hostname), "Connection", "close")
  \o (IF body # None /\ Get(body) # ""
      THEN << <<"Content-Length", Decimal(Len(Get(body)))>> >>
      ELSE <<>>)

\* What one proxyFetch (tls = TRUE) or proxyFetchPlain (tls = FALSE) call
\* opens and sends: VsockStream.connect(HOST_CID, vsockPort), for TLS the
\* servername, and the request line, header lines and body.
OutboundFetch(tls, vsockPort, hostname, method, path, headers, body) ==
  [cid |-> HOST_CID, port |-> vsockPort, tls |-> tls,
   servername |-> IF tls THEN Some(hostname) ELSE None,
   method |-> method, path |-> path,
   headers |-> RequestHeaderLines(hostname, headers, body),
   body |-> body, state |-> "pending", response |-> None]

ProxyFetch(vsockPort, hostname, method, path, headers, body) ==
  OutboundFetch(TRUE, vsockPort, hostname, method, path, headers, body)

ProxyFetchPlain(vsockPort, hostname, method, path, headers, body) ==
  OutboundFetch(FALSE, vsockPort, hostname, method, path, headers, body)

\* Ways a fetch rejects: the 25 s timer, a TLS or stream error, a connect
\* error, a response parseHttpResponse cannot parse
FetchErrors ==
  { "proxyFetch timeout after 25000ms", "TLS error", "vsock connect failed",
    "Malformed HTTP response: no header/body separator" }

\* Upstream response bodies the model sends back
SOAP_VALID == "<checkVatResponse><valid>true</valid><name>TYTLE LDA</name><address>RUA DO EXEMPLO 123</address></checkVatResponse>"
SOAP_INVALID == "<checkVatResponse><valid>false</valid><name></name><address></address></checkVatResponse>"
SOAP_FAULT == "<soap:Fault><faultstring>MS_UNAVAILABLE</faultstring></soap:Fault>"
HMRC_JSON == "{\"target\":{\"name\":\"British Company Ltd\",\"address\":{\"line1\":\"10 Downing Street\",\"line2\":null,\"postcode\":\"SW1A 2AA\"}}}"
HMRC_NOT_FOUND == "{\"code\":\"NOT_FOUND\"}"
SICAE_LANDING == "<input id=\"__VIEWSTATE\" value=\"VS1\"/><input id=\"__EVENTVALIDATION\" value=\"EV1\"/><input id=\"ctl00_MainContent_consultaSimplesNIPCNIPC\"/>"
SICAE_LANDING_IPNIPC == "<input id=\"__VIEWSTATE\" value=\"VS1\"/><input id=\"__EVENTVALIDATION\" value=\"EV1\"/><input id=\"ctl00_MainContent_ipNipc\"/>"
SICAE_LANDING_NO_EV == "<input id=\"__VIEWSTATE\" value=\"VS1\"/>"
SICAE_RESULT == "<table class=\"gridMain\"><tr class=\"gridHeader\"><th>NIPC</th></tr><tr><td>513032525</td><td><span title=\"TYTLE LDA\">TYTLE LDA</span></td><td><span title=\"Engenharia\">71120</span></td><td><div title=\"Comercio\">47126</div></td></tr></table>"
SICAE_NO_RESULT == "<span class=\"ClassErro\">Sem resultados</span>"
SICAE_UNPROCESSED == "<html>Consulta</html>"
STRIPE_LIST == "{\"object\":\"list\",\"data\":[{},{}],\"has_more\":true}"
STRIPE_ACCOUNT == "{\"object\":\"account\",\"id\":\"acct_1\"}"
SERVER_ERROR == "Internal Server Error"

UpstreamResponses ==
  { [status |-> 200, headers |-> <<>>, body |-> SOAP_VALID],
    [status |-> 200, headers |-> <<>>, body |-> SOAP_INVALID],
    [status |-> 200, headers |-> <<>>, body |-> SOAP_FAULT],
    [status |-> 200, headers |-> <<>>, body |-> HMRC_JSON],
    [status |-> 404, headers |-> <<>>, body |-> HMRC_NOT_FOUND],
    [status |-> 200, headers |-> << <<"set-cookie", "ASP.NET_SessionId=abc; path=/">> >>,
     body |-> SICAE_LANDING],
    [status |-> 200, headers |-> <<>>, body |-> SICAE_LANDING_IPNIPC],
    [status |-> 200, headers |-> <<>>, body |-> SICAE_LANDING_NO_EV],
    [status |-> 200, headers |-> <<>>, body |-> SICAE_RESULT],
    [status |-> 200, headers |-> <<>>, body |-> SICAE_NO_RESULT],
    [status |-> 200, headers |-> <<>>, body |-> SICAE_UNPROCESSED],
    [status |-> 200, headers |-> <<>>, body |-> STRIPE_LIST],
    [status |-> 200, headers |-> <<>>, body |-> STRIPE_ACCOUNT],
    [status |-> 500, headers |-> <<>>, body |-> SERVER_ERROR] }

\* ------------------------------------------------------------------------
\* The attestor (attest, requestNsmAttestation, extractPcrs)
\* ------------------------------------------------------------------------
Timestamps == {999, 1700000000}

AttestArgs(apiEndpoint, apiMethod, rawBody, url, requestHeaders) ==
  [apiEndpoint |-> apiEndpoint, apiMethod |-> apiMethod, rawBody |-> rawBody,
   url |-> url, requestHeaders |-> requestHeaders]

\* A response hash taken over the base64 text of the body
ResponseHashOfBase64(rawBody) == Sha256Hex(Base64(rawBody))

ResponseHash(rawBody) == Sha256Hex(rawBody)

\* A request hash that leaves the method out
RequestHashNoMethod(url, apiMethod, requestHeaders) ==
  Sha256Hex(url \o "|" \o JsonStringify(requestHeaders))

RequestHash(url, apiMethod, requestHeaders) ==
  Sha256Hex(url \o "|" \o apiMethod \o "|" \o JsonStringify(requestHeaders))

Nonce(responseHash, apiEndpoint, timestamp) ==
  Sha256Hex(responseHash \o apiEndpoint \o Decimal(timestamp))

\* attest up to the NSM call: timestamp, id, the two hashes and the nonce
AttestDraft(a, timestamp, uuid) ==
  [attestationId |-> "enc-" \o uuid,
   responseHash |-> ResponseHash(a.rawBody),
   requestHash |-> RequestHash(a.url, a.apiMethod, a.requestHeaders),
   apiEndpoint |-> a.apiEndpoint,
   apiMethod |-> a.apiMethod,
   timestamp |-> timestamp,
   nsmDocument |-> "",
   pcrs |-> [pcr0 |-> "", pcr1 |-> "", pcr2 |-> ""],
   nonce |-> Nonce(ResponseHash(a.rawBody), a.apiEndpoint, timestamp)]

\* The CBOR request requestNsmAttestation hands to the ioctl
NsmRequest(nonceHex) ==
  [nonce |-> HexToBytes(nonceHex), user_data |-> "null", public_key |-> "null",
   answer |-> ""]

\* What the NSM device gives back: the ioctl fails, the envelope has no
\* Attestation.document, or a COSE_Sign1 whose PCRs can or cannot be read
NsmOutcomes == {"ioctl-error", "no-document", "document", "document-no-pcrs"}

\* More of what nsmRequest can give back: an envelope that is no CBOR,
\* and documents of every shape extractPcrs tells apart
NsmAnswers ==
  NsmOutcomes \cup
  {"envelope-undecodable", "document-untagged", "document-pcrs-object", "cose-undecodable",
   "cose-not-array", "cose-3-items", "payload-undecodable", "payload-null",
   "pcrs-without-pcr1"}

NsmFailed(o) == o \in {"ioctl-error", "envelope-undecodable", "no-document"}

NsmErrorMessage(o) ==
  CASE o = "no-document" -> "NSM response missing Attestation.document"
    [] o = "envelope-undecodable" -> "Insufficient data"
    [] OTHER -> "NSM ioctl failed"

\* What cbor.decodeFirstSync makes of the document of answer o: whether it
\* decodes, whether the value is tagged, whether it is an array and of how
\* many items, what item 2 decodes to ("undecodable", "null" or a "map"),
\* what payload.pcrs is ("missing", a "Map" or an "object") and the indices
\* it holds
CoseSign1(o) ==
  LET good == [decodes |-> TRUE, tagged |-> TRUE, isArray |-> TRUE, length |-> 4,
               payload |-> "map", pcrs |-> "Map", indices |-> {0, 1, 2}]
  IN  CASE o = "document" -> good
        [] o = "document-untagged" -> [good EXCEPT !.tagged = FALSE]
        [] o = "document-pcrs-object" -> [good EXCEPT !.pcrs = "object"]
        [] o = "document-no-pcrs" -> [good EXCEPT !.pcrs = "missing", !.indices = {}]
        [] o = "cose-undecodable" -> [good EXCEPT !.decodes = FALSE]
        [] o = "cose-not-array" -> [good EXCEPT !.isArray = FALSE, !.length = 0]
        [] o = "cose-3-items" -> [good EXCEPT !.length = 3]
        [] o = "payload-undecodable" -> [good EXCEPT !.payload = "undecodable"]
        [] o = "payload-null" -> [good EXCEPT !.payload = "null"]
        [] o = "pcrs-without-pcr1" -> [good EXCEPT !.indices = {0, 2}]

\* Buffer.from(val).toString('hex') of the PCR at idx
PcrHex(idx) == CASE idx = 0 -> "aa" [] idx = 1 -> "bb" [] idx = 2 -> "cc"

NoPcrs == [pcr0 |-> "", pcr1 |-> "", pcr2 |-> ""]

\* An extractPcrs whose failures are not caught
ExtractPcrsThrowing(o) ==
  IF CoseSign1(o).indices = {0, 1, 2} /\ CoseSign1(o).decodes /\ CoseSign1(o).isArray
     /\ CoseSign1(o).length >= 4 /\ CoseSign1(o).payload = "map"
  THEN [pcr0 |-> "aa", pcr1 |-> "bb", pcr2 |-> "cc"]
  ELSE [pcr0 |-> "<thrown>", pcr1 |-> "<thrown>", pcr2 |-> "<thrown>"]

\* extractPcrs: everything thrown inside its try gives the empty PCRs
ExtractPcrs(o) ==
  LET c == CoseSign1(o)
      getPcr(idx) == IF c.pcrs # "missing" /\ idx \in c.indices THEN PcrHex(idx) ELSE ""
  IN  IF ~c.decodes THEN NoPcrs
      ELSE IF ~c.isArray \/ c.length < 4 THEN NoPcrs
      ELSE IF c.payload # "map" THEN NoPcrs
      ELSE [pcr0 |-> getPcr(0), pcr1 |-> getPcr(1), pcr2 |-> getPcr(2)]

\* The bytes of Attestation.document in answer o, made for the nonce given
DocumentBytes(o, nonce) ==
  IF o = "document" THEN "COSE_Sign1(" \o nonce \o ")" ELSE o \o "(" \o nonce \o ")"

\* The document attest returns once the NSM has answered
AttestFinish(d, o) ==
  [d EXCEPT !.nsmDocument = Base64(DocumentBytes(o, HexToBytes(d.nonce))),
            !.pcrs = ExtractPcrs(o)]

\* ------------------------------------------------------------------------
\* State
\* ------------------------------------------------------------------------
VARIABLES
  service,      \* the enclave image that is running
  pc,           \* where the accept loop / handleConnection / the handler stands
  conn,         \* per accepted connection: its state and the close() calls on it
  cur,          \* the connection handleConnection is serving (0: none yet)
  acceptFails,  \* accept() failures so far
  req,          \* the request readMessage returned, if any
  work,         \* the handler's local variables that live across an await
  fetches,      \* the outbound fetches of this invocation, in order
  attArgs,      \* the arguments the handler passes to attest
  draft,        \* status, headers and rawBody of the reply being built
  att,          \* the attestation document under construction
  nsmCalls,     \* the requests handed to the NSM in this invocation
  resp,         \* the response the handler returned, if any
  err,          \* the exception handleConnection caught, if any
  sent,         \* the writeMessage calls on the current connection, in order
  log,          \* the steps of this invocation, in order
  wmsgs,        \* framing: the values the writer was given, in order
  wres,         \* framing: how each writeMessage call ended ("" while it runs)
  wpc,          \* framing: where writeMessage stands
  woff,         \* framing: writeMessage's offset into the current frame
  wire,         \* framing: the bytes in flight, written and not yet read
  wclosed,      \* framing: the writer closed the stream
  wshort,       \* framing: writes so far that took less than they were given
  rpc,          \* framing: where readMessage stands
  rneed,        \* framing: readExact's `remaining`
  rchunks,      \* framing: readExact's `chunks`, as Buffer.concat joins them
  rlen,         \* framing: the length readMessage decoded from the header
  rgot,         \* framing: the results of the readMessage calls, in order
  rcount,       \* framing: bytes the reader took from the stream so far
  rshort,       \* framing: reads so far that returned less than they were asked
  calls,        \* parent: per HTTP request to POST /attest/fetch, its progress and answer
  procs,        \* parent: per sendToEnclave call, the socat process and the promise
  backlog,      \* per enclave CID: the connections dialled and not yet accepted
  serving,      \* per enclave CID: the connection its handleConnection serves (0: none)
  health,       \* parent: the answer of the last GET /health, if any
  clock,        \* proxyFetch: the time since the fetch started, against its 25 s
  thread,       \* the enclave's one thread: in the event loop, or inside vsock.read
  timer,        \* proxyFetch: the setTimeout of the fetch
  promise,      \* proxyFetch: how the returned promise settled, if it has
  duplex,       \* the VsockDuplex of the fetch
  tlsSocket,    \* proxyFetch: the TLS session over the duplex
  httpReq,      \* whether the request text was written to the stream
  fchunks,      \* proxyFetch: the number of response chunks collected (chunks)
  vsockRaw,     \* the fetch's socket: what the proxy has sent and not yet been read
  late,         \* what was done on the stream after the timer fired
  codec,        \* encodeFieldElements: schema, values, the buffers pushed, the outcome
  reader,       \* VsockDuplex: the read side of one duplex and the Readable above it
  dechunk       \* decodeChunked: raw, offset, the bytes of parts, where the loop stands

connVars == <<service, conn, cur, acceptFails>>
callVars == <<req, work, fetches, attArgs, draft, att, nsmCalls, resp, err, sent, log>>
loopVars == <<connVars, pc, callVars>>
frameVars ==
  <<wmsgs, wres, wpc, woff, wire, wclosed, wshort, rpc, rneed, rchunks, rlen, rgot, rcount,
    rshort>>
parentVars == <<calls, procs, backlog, serving, health>>
fetchVars ==
  <<clock, thread, timer, promise, duplex, tlsSocket, httpReq, fchunks, vsockRaw, late>>
unitVars == <<reader, dechunk>>
vars == <<loopVars, frameVars, parentVars, fetchVars, codec, unitVars>>

ConnIds == 1..MaxConns

NoWork ==
  [fields |-> NoFields, apiEndpoint |-> "", path |-> "", url |-> "",
   variants |-> <<>>, viewState |-> "", eventValidation |-> "", cookie |-> "",
   result |-> None]

NoDraft == [status |-> 0, headers |-> <<>>, rawBody |-> ""]

FrameInit ==
  /\ wmsgs = <<>>
  /\ wres = <<>>
  /\ wshort = 0
  /\ rshort = 0
  /\ wpc = "idle"
  /\ woff = 0
  /\ wire = <<>>
  /\ wclosed = FALSE
  /\ rpc = "idle"
  /\ rneed = 0
  /\ rchunks = <<>>
  /\ rlen = 0
  /\ rgot = <<>>
  /\ rcount = 0

LoopInit ==
  /\ service \in Services
  /\ pc = "accept"
  /\ conn = [c \in ConnIds |-> [state |-> "none", closeCalls |-> 0]]
  /\ cur = 0
  /\ acceptFails = 0
  /\ req = None
  /\ work = NoWork
  /\ fetches = <<>>
  /\ attArgs = None
  /\ draft = NoDraft
  /\ att = None
  /\ nsmCalls = <<>>
  /\ resp = None
  /\ err = None
  /\ sent = <<>>
  /\ log = <<>>

\* The parent server before any request: no call, no socat process, nothing
\* dialled to either enclave
VIES_CID == 16
SICAE_CID == 17
Cids == {VIES_CID, SICAE_CID}
CallIds == 1..MaxCalls

NoCall == [pc |-> "idle", body |-> None, request |-> None, res |-> None]

NoProc ==
  [phase |-> "none", cid |-> 0, port |-> 0, stdin |-> None, out |-> <<>>,
   outClosed |-> FALSE, code |-> None, chunks |-> <<>>, ended |-> FALSE, closed |-> FALSE,
   short |-> 0, timer |-> "off", outcome |-> None, reply |-> None]

ParentInit ==
  /\ calls = [i \in CallIds |-> NoCall]
  /\ procs = [i \in CallIds |-> NoProc]
  /\ backlog = [c \in Cids |-> <<>>]
  /\ serving = [c \in Cids |-> 0]
  /\ health = None

\* No fetch has been started
NoDuplex == [state |-> "none", reading |-> FALSE, poll |-> FALSE]
NoSocket == [avail |-> 0, sent |-> 0, eof |-> FALSE]

FetchInit ==
  /\ clock = "<25s"
  /\ thread = "loop"
  /\ timer = "unset"
  /\ promise = None
  /\ duplex = NoDuplex
  /\ tlsSocket = "none"
  /\ httpReq = "unwritten"
  /\ fchunks = 0
  /\ vsockRaw = NoSocket
  /\ late = {}

\* No encodeFieldElements call is under way
NoCodec ==
  [schema |-> <<>>, values |-> <<>>, buffers |-> <<>>, out |-> <<>>, error |-> "",
   state |-> "idle"]

\* No duplex is under observation
NoReader ==
  [state |-> "idle", reading |-> FALSE, immediates |-> 0, size |-> 0, asked |-> 0,
   reads |-> 0, pushed |-> 0, chains |-> 0, awaiting |-> FALSE, paused |-> FALSE]

\* No decodeChunked call is under way
NoDechunk ==
  [raw |-> <<>>, offset |-> 0, nan |-> FALSE, size |-> [nan |-> TRUE, v |-> 0],
   parts |-> <<>>, seen |-> {}, out |-> <<>>, state |-> "idle"]

UnitInit == reader = NoReader /\ dechunk = NoDechunk

Init ==
  LoopInit /\ FrameInit /\ ParentInit /\ FetchInit /\ codec = NoCodec /\ UnitInit

Accepted == {c \in ConnIds : conn[c].state # "none"}
OpenConns == {c \in ConnIds : conn[c].state = "open"}

\* ------------------------------------------------------------------------
\* The accept loop (startEnclave.main) and handleConnection
\* ------------------------------------------------------------------------

\* A loop that does not await handleConnection: it accepts again while
\* the connection it just accepted is still open
AcceptNoAwait ==
  /\ pc = "accept"
  /\ Cardinality(Accepted) < MaxConns
  /\ conn' = [conn EXCEPT ![Cardinality(Accepted) + 1].state = "open"]
  /\ cur' = Cardinality(Accepted) + 1
  /\ log' = <<"accept">>
  /\ UNCHANGED <<service, acceptFails, pc, req, work, fetches, attArgs, draft, att,
                 nsmCalls, resp, err, sent, frameVars, parentVars, fetchVars, codec, unitVars>>

\* listener.accept() returns a connection; handleConnection starts on it
AcceptOk ==
  /\ pc = "accept"
  /\ Cardinality(Accepted) < MaxConns
  /\ LET c == Cardinality(Accepted) + 1 IN
       /\ conn' = [conn EXCEPT ![c].state = "open"]
       /\ cur' = c
  /\ pc' = "read"
  /\ req' = None
  /\ work' = NoWork
  /\ fetches' = <<>>
  /\ attArgs' = None
  /\ draft' = NoDraft
  /\ att' = None
  /\ nsmCalls' = <<>>
  /\ resp' = None
  /\ err' = None
  /\ sent' = <<>>
  /\ log' = <<"accept">>
  /\ UNCHANGED <<service, acceptFails, frameVars, parentVars, fetchVars, codec, unitVars>>

\* An accept() failure that is retried at once
AcceptFailNoSleep ==
  /\ pc = "accept"
  /\ acceptFails < MaxAcceptFails
  /\ acceptFails' = acceptFails + 1
  /\ pc' = "accept"
  /\ UNCHANGED <<service, conn, cur, callVars, frameVars, parentVars, fetchVars, codec, unitVars>>

\* listener.accept() throws: logged, then sleep(100)
AcceptFail ==
  /\ pc = "accept"
  /\ acceptFails < MaxAcceptFails
  /\ acceptFails' = acceptFails + 1
  /\ pc' = "sleep"
  /\ UNCHANGED <<service, conn, cur, callVars, frameVars, parentVars, fetchVars, codec, unitVars>>

\* sleep(100) is over: back to the top of the loop
SleepDone ==
  /\ pc = "sleep"
  /\ pc' = "accept"
  /\ UNCHANGED <<connVars, callVars, frameVars, parentVars, fetchVars, codec, unitVars>>

\* Ways readMessage throws: EOF in readExact, L = 0, L > 16 MiB, JSON.parse
ReadErrors ==
  { "Connection closed: expected 4 bytes, got 0", "Empty message received",
    "Unexpected token in JSON" }

\* readMessage returns the request; the log line reads request.id,
\* which throws a TypeError when the frame held JSON null
ReadRequestOk ==
  /\ pc = "read"
  /\ \E r \in Requests :
       /\ req' = Some(r)
       /\ IF r.isNull
          THEN /\ err' = Some("Cannot read properties of null (reading 'id')")
               /\ pc' = "catch"
          ELSE /\ err' = err
               /\ pc' = "handle"
  /\ log' = Append(log, "recv")
  /\ UNCHANGED <<connVars, work, fetches, attArgs, draft, att, nsmCalls, resp, sent, frameVars, parentVars, fetchVars, codec, unitVars>>

\* readMessage throws
ReadRequestFail ==
  /\ pc = "read"
  /\ \E e \in ReadErrors : err' = Some(e)
  /\ pc' = "catch"
  /\ log' = Append(log, "recv-failed")
  /\ UNCHANGED <<connVars, req, work, fetches, attArgs, draft, att, nsmCalls, resp, sent, frameVars, parentVars, fetchVars, codec, unitVars>>

\* ------------------------------------------------------------------------
\* Steps shared by the handlers
\* ------------------------------------------------------------------------
Handler == Config(service).handler
Request == Get(req)

LastFetch == fetches[Len(fetches)]
SetLastFetch(st) == [fetches EXCEPT ![Len(fetches)].state = st]

\* The awaited fetch resolved with the upstream response r
FetchResolved(r) ==
  [fetches EXCEPT ![Len(fetches)].state = "done", ![Len(fetches)].response = Some(r)]

\* The handler returns `r` without awaiting anything further
Return(r) ==
  /\ resp' = Some(r)
  /\ pc' = "write"

\* A handler that starts the fetch and goes on without awaiting it
StartFetchNoAwait(f) ==
  /\ fetches' = Append(fetches, f)
  /\ log' = Append(log, "fetch-start")
  /\ pc' = "attest"

\* The handler calls proxyFetch / proxyFetchPlain and awaits it
StartFetch(f) ==
  /\ fetches' = Append(fetches, f)
  /\ log' = Append(log, "fetch-start")
  /\ pc' = "fetch"

\* The handler calls attest(...) for the reply [status, headers, rawBody]
StartAttest(args, status, headers) ==
  /\ attArgs' = Some(args)
  /\ draft' = [status |-> status, headers |-> headers, rawBody |-> args.rawBody]
  /\ pc' = "attest"

\* An outer catch that answers with status 500
HandlerCatch500(e) == Failure(500, <<>>, e)

\* The handler's outer catch: { success: false, status: 502, error: err.message }
HandlerCatch(e) == Failure(502, <<>>, e)

\* The awaited fetch rejects: every handler's outer catch turns it into 502
FetchFail ==
  /\ pc = "fetch"
  /\ \E e \in FetchErrors :
       /\ fetches' = SetLastFetch("failed")
       /\ Return(HandlerCatch(e))
  /\ log' = Append(log, "fetch-end")
  /\ UNCHANGED <<connVars, req, work, attArgs, draft, att, nsmCalls, err, sent, frameVars, parentVars, fetchVars, codec, unitVars>>

\* attest, first half: timestamp, attestationId, responseHash, requestHash, nonce
AttestNonce ==
  /\ pc = "attest"
  /\ \E ts \in Timestamps : att' = Some(AttestDraft(Get(attArgs), ts, "uuid-1"))
  /\ pc' = "nsm"
  /\ log' = Append(log, "nonce")
  /\ UNCHANGED <<connVars, req, work, fetches, attArgs, draft, nsmCalls, resp, err, sent, frameVars, parentVars, fetchVars, codec, unitVars>>

\* attest, second half: requestNsmAttestation(nonce). The ioctl answers with a
\* document, and the handler returns its success reply; or attest throws and
\* the handler's outer catch returns 502.
NsmAttestOf(answers) ==
  /\ pc = "nsm"
  /\ \E o \in answers :
       /\ nsmCalls' = Append(nsmCalls, [NsmRequest(Get(att).nonce) EXCEPT !.answer = o])
       /\ IF NsmFailed(o)
          THEN /\ att' = att
               /\ log' = log \o <<"nsm-request", "nsm-failed">>
               /\ Return(HandlerCatch(NsmErrorMessage(o)))
          ELSE /\ att' = Some(AttestFinish(Get(att), o))
               /\ log' = log \o <<"nsm-request", "nsm-reply">>
               /\ Return(Success(draft.status, draft.headers, draft.rawBody,
                                 AttestFinish(Get(att), o)))
  /\ UNCHANGED <<connVars, req, work, fetches, attArgs, draft, err, sent, frameVars, parentVars, fetchVars, codec, unitVars>>

NsmAttest == NsmAttestOf(NsmOutcomes)

\* The same call, the NSM answering with any of NsmAnswers
NsmAttestAny == NsmAttestOf(NsmAnswers)

\* ------------------------------------------------------------------------
\* Generic request handler (createRequestHandler; handleRequest of the
\* stand-alone VIES image is the same code over ALLOWED_HOSTS)
\* ------------------------------------------------------------------------

\* A lookup that matches every hostname (the gate left open)
FindAnyHost(hosts, hostname) == Some(Head(hosts))

\* config.hosts.find((h) => h.hostname === hostname)
RECURSIVE FindAllowed(_, _)
FindAllowed(hosts, hostname) ==
  IF hosts = <<>> THEN None
  ELSE IF Head(hosts).hostname = hostname THEN Some(Head(hosts))
  ELSE FindAllowed(Tail(hosts), hostname)

RECURSIVE JoinHostnames(_)
JoinHostnames(hosts) ==
  IF hosts = <<>> THEN ""
  ELSE Head(hosts).hostname \o (IF Len(hosts) > 1 THEN ", " ELSE "")
       \o JoinHostnames(Tail(hosts))

HostNotAllowed(hostname, hosts) ==
  Failure(403, <<>>, "Host not allowed: " \o hostname
                     \o ". This enclave only permits: " \o JoinHostnames(hosts))

\* An endpoint that keeps the query string
ApiEndpointWithSearch(u) == u.hostname \o u.pathname \o u.search

\* `${hostname}${parsedUrl.pathname}`
ApiEndpoint(u) == u.hostname \o u.pathname

\* From the call to the first await: URL parse, allowlist gate, proxyFetch
GenericStart ==
  /\ pc = "handle"
  /\ Handler = "generic"
  /\ LET u == ParseUrl(Request.url)
         allowed == FindAllowed(Config(service).hosts, u.hostname)
     IN  IF ~u.ok
         THEN /\ Return(HandlerCatch("Invalid URL"))
              /\ UNCHANGED <<work, fetches, log>>
         ELSE IF allowed = None
         THEN /\ Return(HostNotAllowed(u.hostname, Config(service).hosts))
              /\ UNCHANGED <<work, fetches, log>>
         ELSE /\ work' = [work EXCEPT !.apiEndpoint = ApiEndpoint(u),
                                      !.path = u.pathname \o u.search,
                                      !.url = Request.url]
              /\ StartFetch(ProxyFetch(Get(allowed).vsockProxyPort, u.hostname,
                                       Request.method, u.pathname \o u.search,
                                       Request.headers, Request.body))
              /\ resp' = resp
  /\ UNCHANGED <<connVars, req, attArgs, draft, att, nsmCalls, err, sent, frameVars, parentVars, fetchVars, codec, unitVars>>

GenericUpstream ==
  {r \in UpstreamResponses :
     r.body \in {SOAP_VALID, HMRC_NOT_FOUND, SICAE_LANDING, SERVER_ERROR}}

\* proxyFetch resolved (whatever the status): attest the body as received
GenericFetchDone ==
  /\ pc = "fetch"
  /\ Handler = "generic"
  /\ \E r \in GenericUpstream :
       /\ fetches' = FetchResolved(r)
       /\ StartAttest(AttestArgs(work.apiEndpoint, Request.method, r.body,
                                 Request.url, Request.headers),
                      r.status, r.headers)
  /\ log' = Append(log, "fetch-end")
  /\ UNCHANGED <<connVars, req, work, att, nsmCalls, resp, err, sent, frameVars, parentVars, fetchVars, codec, unitVars>>

\* ------------------------------------------------------------------------
\* Field-element blocks as the handlers use them: encodeFieldElements over a
\* schema, then base64. A slot is written symbolically; an absent, null or
\* empty value gives the zero slot, a shortString over 31 bytes throws.
\* ------------------------------------------------------------------------
Slot(encoding, v) ==
  IF v \in {Undefined, ""} \/ (encoding = "uint" /\ v = "0") THEN "0"
  ELSE encoding \o "(" \o v \o ")"

ShortStringFits(v) == v \in {Undefined, ""} \/ Len(v) <= 31

RECURSIVE EncodeSlots(_, _)
EncodeSlots(schema, values) ==
  IF schema = <<>> THEN ""
  ELSE Slot(Head(schema), Head(values)) \o (IF Len(schema) > 1 THEN "," ELSE "")
       \o EncodeSlots(Tail(schema), Tail(values))

EncodeOk(schema, values) ==
  \A i \in 1..Len(schema) : schema[i] = "shortString" => ShortStringFits(values[i])

EncodeFieldElements(schema, values) == "fe[" \o EncodeSlots(schema, values) \o "]"

VIES_SCHEMA == <<"shortString", "shortString", "uint", "sha256", "sha256">>
SICAE_SCHEMA == <<"shortString", "sha256", "shortString", "sha256", "shortString", "sha256">>
STRIPE_PAYMENT_SCHEMA == <<"shortString", "shortString", "shortString", "sha256", "uint", "uint">>

\* value || '' and value || null
OrEmpty(v) == IF Falsy(v) THEN "" ELSE v

\* ------------------------------------------------------------------------
\* VIES / HMRC custom handler (createViesHandler)
\* ------------------------------------------------------------------------
\* A handler configuration whose HMRC traffic goes to the port of the VIES entry
ViesCfgCrossed ==
  [viesHostname |-> VIES_HOST.hostname, viesVsockPort |-> VIES_HOST.vsockProxyPort,
   hmrcHostname |-> HMRC_HOST.hostname, hmrcVsockPort |-> VIES_HOST.vsockProxyPort]

ViesCfg ==
  [viesHostname |-> VIES_HOST.hostname, viesVsockPort |-> VIES_HOST.vsockProxyPort,
   hmrcHostname |-> HMRC_HOST.hostname, hmrcVsockPort |-> HMRC_HOST.vsockProxyPort]

EncodeURIComponent(v) == IF v = "12/34" THEN "12%2F34" ELSE v

\* escapeXml: the five replacements, on the strings of the model
EscapeXml(str) == IF str = "A&B" THEN "A&amp;B" ELSE str

BuildCheckVatSoapRequest(countryCode, vatNumber) ==
  "<urn:checkVat><urn:countryCode>" \o EscapeXml(countryCode)
  \o "</urn:countryCode><urn:vatNumber>" \o EscapeXml(vatNumber)
  \o "</urn:vatNumber></urn:checkVat>"

\* parseCheckVatSoapResponse on the bodies of the model
ParseCheckVatSoapResponse(xml) ==
  CASE xml = SOAP_VALID ->
         [valid |-> TRUE, name |-> "TYTLE LDA", address |-> "RUA DO EXEMPLO 123"]
    [] OTHER ->
         [valid |-> FALSE, name |-> Undefined, address |-> Undefined]

\* A parser that takes every status for an answer to parse
ParseHmrcResponseNo404(json, status) ==
  [valid |-> TRUE, name |-> Undefined, address |-> Undefined]

\* parseHmrcResponse on the bodies of the model
ParseHmrcResponse(json, status) ==
  IF status = 404 THEN [valid |-> FALSE, name |-> Undefined, address |-> Undefined]
  ELSE CASE json = HMRC_JSON ->
              [valid |-> TRUE, name |-> "British Company Ltd",
               address |-> "10 Downing Street, SW1A 2AA"]
         [] json \in {HMRC_NOT_FOUND, STRIPE_LIST, STRIPE_ACCOUNT} ->
              [valid |-> TRUE, name |-> Undefined, address |-> Undefined]
         [] OTHER ->
              [valid |-> FALSE, name |-> Undefined, address |-> Undefined]

SoapFault(r) == r.body = SOAP_FAULT \/ r.status # 200

SoapFaultMessage(r) ==
  "VIES SOAP error: "
  \o (IF r.body = SOAP_FAULT THEN "MS_UNAVAILABLE" ELSE "HTTP " \o Decimal(r.status))

BoolString(b) == IF b THEN "true" ELSE "false"

ViesUpstream ==
  {r \in UpstreamResponses :
     r.body \in {SOAP_VALID, SOAP_INVALID, SOAP_FAULT, HMRC_JSON, HMRC_NOT_FOUND,
                 SERVER_ERROR}}

\* From the call to the first await: body parse, validation, routing on
\* countryCode, proxyFetch to HMRC or to VIES
ViesStart ==
  /\ pc = "handle"
  /\ Handler = "vies"
  /\ LET f == ParseBody(Request.body)
         hmrcPath == "/organisations/vat/check-vat-number/lookup/"
                     \o EncodeURIComponent(f.vatNumber)
         viesPath == "/taxation_customs/vies/services/checkVatService"
     IN  IF ~f.ok
         THEN /\ Return(Failure(400, <<>>, "Invalid request body"))
              /\ UNCHANGED <<work, fetches, log>>
         ELSE IF Falsy(f.countryCode) \/ Falsy(f.vatNumber)
         THEN /\ Return(Failure(400, <<>>, "Both countryCode and vatNumber are required"))
              /\ UNCHANGED <<work, fetches, log>>
         ELSE IF f.countryCode = "GB"
         THEN /\ work' = [work EXCEPT !.fields = f, !.path = hmrcPath,
                                      !.apiEndpoint = ViesCfg.hmrcHostname \o hmrcPath]
              /\ StartFetch(ProxyFetch(ViesCfg.hmrcVsockPort, ViesCfg.hmrcHostname, "GET",
                                       hmrcPath,
                                       << <<"Accept", "application/vnd.hmrc.1.0+json">> >>,
                                       None))
              /\ resp' = resp
         ELSE /\ work' = [work EXCEPT !.fields = f, !.path = viesPath,
                                      !.apiEndpoint = ViesCfg.viesHostname \o viesPath]
              /\ StartFetch(ProxyFetch(ViesCfg.viesVsockPort, ViesCfg.viesHostname, "POST",
                                       viesPath,
                                       << <<"Content-Type", "text/xml;charset=UTF-8">>,
                                          <<"SOAPAction", "">> >>,
                                       Some(BuildCheckVatSoapRequest(f.countryCode,
                                                                     f.vatNumber))))
              /\ resp' = resp
  /\ UNCHANGED <<connVars, req, attArgs, draft, att, nsmCalls, err, sent, frameVars, parentVars, fetchVars, codec, unitVars>>

\* proxyFetch resolved: parse, encode the five slots, call attest
ViesFetchDone ==
  /\ pc = "fetch"
  /\ Handler = "vies"
  /\ \E r \in ViesUpstream :
       LET f == work.fields
           gb == f.countryCode = "GB"
           parsed == IF gb THEN ParseHmrcResponse(r.body, r.status)
                     ELSE ParseCheckVatSoapResponse(r.body)
           values == <<f.countryCode, f.vatNumber, IF parsed.valid THEN "1" ELSE "0",
                       OrEmpty(parsed.name), OrEmpty(parsed.address)>>
           rawBody == Base64(EncodeFieldElements(VIES_SCHEMA, values))
           url == IF gb
                  THEN "https://" \o ViesCfg.hmrcHostname
                       \o "/organisations/vat/check-vat-number/lookup/" \o f.vatNumber
                  ELSE "https://" \o ViesCfg.viesHostname
                       \o "/taxation_customs/vies/services/checkVatService"
       IN  /\ fetches' = FetchResolved(r)
           /\ IF ~gb /\ SoapFault(r)
              THEN /\ Return(Failure(502, <<>>, SoapFaultMessage(r)))
                   /\ UNCHANGED <<attArgs, draft>>
              ELSE IF ~EncodeOk(VIES_SCHEMA, values)
              THEN /\ Return(Failure(502, <<>>, "shortString exceeds 31 bytes"))
                   /\ UNCHANGED <<attArgs, draft>>
              ELSE /\ StartAttest(
                        AttestArgs(work.apiEndpoint, IF gb THEN "GET" ELSE "POST", rawBody,
                                   url,
                                   << <<"countryCode", f.countryCode>>,
                                      <<"vatNumber", f.vatNumber>> >>),
                        200,
                        << <<"x-vies-country-code", f.countryCode>>,
                           <<"x-vies-vat-number", f.vatNumber>>,
                           <<"x-vies-valid", BoolString(parsed.valid)>>,
                           <<"x-vies-name", OrEmpty(parsed.name)>>,
                           <<"x-vies-address", OrEmpty(parsed.address)>> >>)
                   /\ resp' = resp
  /\ log' = Append(log, "fetch-end")
  /\ UNCHANGED <<connVars, req, work, att, nsmCalls, err, sent, frameVars, parentVars, fetchVars, codec, unitVars>>

\* ------------------------------------------------------------------------
\* SICAE custom handler (createSicaeHandler)
\* ------------------------------------------------------------------------
SicaeCfg == [hostname |-> SICAE_HOST.hostname, vsockProxyPort |-> SICAE_HOST.vsockProxyPort]

\* nifField and submitField as URLSearchParams writes them
FORM_VARIANTS ==
  << [nifField |-> "ctl00%24MainContent%24ipNipc",
      idField |-> "ctl00_MainContent_ipNipc",
      submitField |-> "ctl00%24MainContent%24btnPesquisa", submitValue |-> "Pesquisar"],
     [nifField |-> "ctl00%24MainContent%24consultaSimplesNIPCNIPC",
      idField |-> "ctl00_MainContent_consultaSimplesNIPCNIPC",
      submitField |-> "ctl00%24MainContent%24consultaSimplesSubmit",
      submitValue |-> "Pesquisar"] >>

\* A test that lets any non-empty nif through
AnyNif(nif) == TRUE

\* /^\d{9}$/.test(nif) on the values of the model
NineDigits(nif) == nif = "513032525"

\* pageHtml.includes(needle) on the pages and needles of the model
Includes(html, needle) ==
  CASE needle = "ctl00_MainContent_consultaSimplesNIPCNIPC" -> html = SICAE_LANDING
    [] needle = "ctl00_MainContent_ipNipc" -> html = SICAE_LANDING_IPNIPC
    [] needle = "ClassErro" -> html = SICAE_NO_RESULT
    [] needle = "gridMain" -> html = SICAE_RESULT
    [] OTHER -> FALSE

\* the two regular expressions on the landing page
ViewStateOf(html) ==
  IF html \in {SICAE_LANDING, SICAE_LANDING_IPNIPC, SICAE_LANDING_NO_EV}
  THEN Some("VS1") ELSE None

EventValidationOf(html) ==
  IF html \in {SICAE_LANDING, SICAE_LANDING_IPNIPC} THEN Some("EV1") ELSE None

SessionCookieOf(headers) ==
  IF HasKey(headers, "set-cookie") THEN "ASP.NET_SessionId=abc" ELSE ""

\* The variants in the order of the table, whatever the page holds
DetectFormVariantsUnsorted(html) == FORM_VARIANTS

\* stable sort of the two variants, the ones present on the page first
DetectFormVariants(html) ==
  LET a == FORM_VARIANTS[1]
      b == FORM_VARIANTS[2]
  IN  IF Includes(html, b.idField) /\ ~Includes(html, a.idField)
      THEN <<b, a>> ELSE <<a, b>>

BuildFormBody(nif, viewState, eventValidation, variant) ==
  "__VIEWSTATE=" \o viewState \o "&__EVENTVALIDATION=" \o eventValidation \o "&"
  \o variant.nifField \o "=" \o nif \o "&" \o variant.submitField \o "="
  \o variant.submitValue

\* parseSicaeResults: the primary strategy finds no title in the first cell
\* of the row, the fallback strategy reads the row of SICAE_RESULT
ParseSicaeResults(html) ==
  IF Includes(html, "ClassErro") \/ ~Includes(html, "gridMain") THEN None
  ELSE Some([officialName |-> "TYTLE LDA", caePrimary |-> "71120",
             caePrimaryDescription |-> "Engenharia",
             cae2Code |-> "47126", cae2Desc |-> ""])

SicaeGetUpstream ==
  {r \in UpstreamResponses :
     r.body \in {SICAE_LANDING, SICAE_LANDING_IPNIPC, SICAE_LANDING_NO_EV,
                 SICAE_UNPROCESSED, SERVER_ERROR}}

SicaePostUpstream ==
  {r \in UpstreamResponses :
     r.body \in {SICAE_RESULT, SICAE_NO_RESULT, SICAE_UNPROCESSED, SERVER_ERROR}}

SicaePost(variant, w) ==
  ProxyFetchPlain(SicaeCfg.vsockProxyPort, SicaeCfg.hostname, "POST", "/Consulta.aspx",
    << <<"User-Agent", "Mozilla/5.0">>, <<"Accept", "text/html">>,
       <<"Content-Type", "application/x-www-form-urlencoded">>,
       <<"Referer", "http://" \o SicaeCfg.hostname \o "/Consulta.aspx">>,
       <<"Origin", "http://" \o SicaeCfg.hostname>> >>
    \o (IF w.cookie # "" THEN << <<"Cookie", w.cookie>> >> ELSE <<>>),
    Some(BuildFormBody(w.fields.nif, w.viewState, w.eventValidation, variant)))

\* From the call to the first await: body parse, NIF validation, GET of the form
SicaeStart ==
  /\ pc = "handle"
  /\ Handler = "sicae"
  /\ LET f == ParseBody(Request.body)
     IN  IF ~f.ok
         THEN /\ Return(Failure(400, <<>>, "Invalid request body"))
              /\ UNCHANGED <<work, fetches, log>>
         ELSE IF Falsy(f.nif) \/ ~NineDigits(f.nif)
         THEN /\ Return(Failure(400, <<>>, "Invalid NIF: \"" \o f.nif \o "\""))
              /\ UNCHANGED <<work, fetches, log>>
         ELSE /\ work' = [work EXCEPT !.fields = f, !.path = "/Consulta.aspx",
                                      !.apiEndpoint = SicaeCfg.hostname \o "/Consulta.aspx"]
              /\ StartFetch(ProxyFetchPlain(SicaeCfg.vsockProxyPort, SicaeCfg.hostname,
                              "GET", "/Consulta.aspx",
                              << <<"User-Agent", "Mozilla/5.0">>, <<"Accept", "text/html">>,
                                 <<"Accept-Language", "pt-PT,pt;q=0.9">> >>,
                              None))
              /\ resp' = resp
  /\ UNCHANGED <<connVars, req, attArgs, draft, att, nsmCalls, err, sent, frameVars, parentVars, fetchVars, codec, unitVars>>

\* The GET resolved: status check, token extraction, first POST
SicaeGetDone ==
  /\ pc = "fetch"
  /\ Handler = "sicae"
  /\ LastFetch.method = "GET"
  /\ \E r \in SicaeGetUpstream :
       LET w == [work EXCEPT !.viewState = Get(ViewStateOf(r.body)),
                             !.eventValidation = Get(EventValidationOf(r.body)),
                             !.cookie = SessionCookieOf(r.headers),
                             !.variants = Tail(DetectFormVariants(r.body))]
       IN  IF r.status # 200
           THEN /\ Return(Failure(r.status, <<>>, "SICAE GET failed: " \o Decimal(r.status)))
                /\ fetches' = FetchResolved(r)
                /\ log' = Append(log, "fetch-end")
                /\ work' = work
           ELSE IF ViewStateOf(r.body) = None
           THEN /\ Return(Failure(502, <<>>, "Could not extract __VIEWSTATE"))
                /\ fetches' = FetchResolved(r)
                /\ log' = Append(log, "fetch-end")
                /\ work' = work
           ELSE IF EventValidationOf(r.body) = None
           THEN /\ Return(Failure(502, <<>>, "Could not extract __EVENTVALIDATION"))
                /\ fetches' = FetchResolved(r)
                /\ log' = Append(log, "fetch-end")
                /\ work' = work
           ELSE /\ work' = w
                /\ fetches' = Append(FetchResolved(r),
                                     SicaePost(Head(DetectFormVariants(r.body)), w))
                /\ log' = log \o <<"fetch-end", "fetch-start">>
                /\ pc' = "fetch"
                /\ resp' = resp
  /\ UNCHANGED <<connVars, req, attArgs, draft, att, nsmCalls, err, sent, frameVars, parentVars, fetchVars, codec, unitVars>>

\* A POST resolved: a result or a processed page ends the loop over the
\* variants, otherwise the next variant is posted; then 404, 502 or attest
SicaePostDone ==
  /\ pc = "fetch"
  /\ Handler = "sicae"
  /\ LastFetch.method = "POST"
  /\ \E r \in SicaePostUpstream :
       LET result == IF r.status = 200 THEN ParseSicaeResults(r.body) ELSE None
           serverProcessed == r.status = 200
                              /\ (Includes(r.body, "ClassErro") \/ Includes(r.body, "gridMain"))
           nif == work.fields.nif
           values == IF IsSome(result)
                     THEN <<nif, Get(result).officialName, Get(result).caePrimary,
                            Get(result).caePrimaryDescription, Get(result).cae2Code,
                            Get(result).cae2Desc>>
                     ELSE <<>>
           rawBody == Base64(EncodeFieldElements(SICAE_SCHEMA, values))
       IN  IF ~IsSome(result) /\ ~serverProcessed /\ work.variants # <<>>
           THEN /\ work' = [work EXCEPT !.variants = Tail(work.variants)]
                /\ fetches' = Append(FetchResolved(r),
                                     SicaePost(Head(work.variants), work))
                /\ log' = log \o <<"fetch-end", "fetch-start">>
                /\ pc' = "fetch"
                /\ UNCHANGED <<resp, attArgs, draft>>
           ELSE /\ fetches' = FetchResolved(r)
                /\ log' = Append(log, "fetch-end")
                /\ work' = work
                /\ IF ~IsSome(result)
                   THEN /\ Return(Failure(404, << <<"x-sicae-nif", nif>> >>,
                                          "No CAE found for NIF " \o nif))
                        /\ UNCHANGED <<attArgs, draft>>
                   ELSE IF ~EncodeOk(SICAE_SCHEMA, values)
                   THEN /\ Return(Failure(502, <<>>, "shortString exceeds 31 bytes"))
                        /\ UNCHANGED <<attArgs, draft>>
                   ELSE /\ StartAttest(
                             AttestArgs(work.apiEndpoint, "POST", rawBody,
                                        "http://" \o SicaeCfg.hostname \o "/Consulta.aspx",
                                        << <<"nif", nif>> >>),
                             200,
                             << <<"x-sicae-nif", nif>>,
                                <<"x-sicae-name", Get(result).officialName>>,
                                <<"x-sicae-cae1-code", Get(result).caePrimary>>,
                                <<"x-sicae-cae1-desc", Get(result).caePrimaryDescription>>,
                                <<"x-sicae-cae2-code", OrEmpty(Get(result).cae2Code)>>,
                                <<"x-sicae-cae2-desc", OrEmpty(Get(result).cae2Desc)>> >>)
                        /\ resp' = resp
  /\ UNCHANGED <<connVars, req, att, nsmCalls, err, sent, frameVars, parentVars, fetchVars, codec, unitVars>>

\* ------------------------------------------------------------------------
\* Stripe payment custom handler (createStripePaymentHandler)
\* ------------------------------------------------------------------------
StripeCfg == [hostname |-> STRIPE_HOST.hostname, vsockPort |-> STRIPE_HOST.vsockProxyPort]

OPERATION_PATH_MAP ==
  [list_charges |-> "/v1/charges", list_customers |-> "/v1/customers",
   list_invoices |-> "/v1/invoices", get_payment_intent |-> "/v1/payment_intents",
   get_account |-> "/v1/accounts"]

OPERATION_OBJECT_TYPE ==
  [list_charges |-> "list", list_customers |-> "list", list_invoices |-> "list",
   get_payment_intent |-> "payment_intent", get_account |-> "account"]

VALID_OPERATIONS == DOMAIN OPERATION_PATH_MAP

STRIPE_API_VERSION == "2025-12-15.clover"

\* new URLSearchParams(queryParams).toString()
RECURSIVE QueryString(_)
QueryString(pairs) ==
  IF pairs = <<>> THEN ""
  ELSE Head(pairs)[1] \o "=" \o Head(pairs)[2]
       \o (IF Len(pairs) > 1 THEN "&" ELSE "") \o QueryString(Tail(pairs))

StripePath(f) ==
  OPERATION_PATH_MAP[f.operation]
  \o (IF f.operation \in {"get_payment_intent", "get_account"} /\ ~Falsy(f.resourceId)
      THEN "/" \o EncodeURIComponent(f.resourceId) ELSE "")

StripePathWithQuery(f) ==
  StripePath(f)
  \o (IF f.queryParams # <<>> THEN "?" \o QueryString(f.queryParams) ELSE "")

\* JSON.parse(response.body) and the reads of object, data.length, has_more
ParseStripeJson(body) ==
  CASE body = STRIPE_LIST ->
         [ok |-> TRUE, object |-> "list", count |-> 2, hasMore |-> TRUE]
    [] body = STRIPE_ACCOUNT ->
         [ok |-> TRUE, object |-> "account", count |-> 0, hasMore |-> FALSE]
    [] OTHER ->
         [ok |-> FALSE, object |-> Undefined, count |-> 0, hasMore |-> FALSE]

StripeUpstream ==
  {r \in UpstreamResponses :
     r.body \in {STRIPE_LIST, STRIPE_ACCOUNT, SOAP_VALID, SERVER_ERROR}}

\* From the call to the first await: body parse, validation, path, headers, GET
StripeStart ==
  /\ pc = "handle"
  /\ Handler = "stripe"
  /\ LET f == ParseBody(Request.body)
     IN  IF ~f.ok
         THEN /\ Return(Failure(400, <<>>, "Invalid request body"))
              /\ UNCHANGED <<work, fetches, log>>
         ELSE IF Falsy(f.operation) \/ f.operation \notin VALID_OPERATIONS
         THEN /\ Return(Failure(400, <<>>, "Invalid operation: \"" \o f.operation \o "\""))
              /\ UNCHANGED <<work, fetches, log>>
         ELSE IF Falsy(f.apiKey)
         THEN /\ Return(Failure(400, <<>>, "apiKey is required"))
              /\ UNCHANGED <<work, fetches, log>>
         ELSE /\ work' = [work EXCEPT !.fields = f, !.path = StripePathWithQuery(f),
                                      !.apiEndpoint = StripeCfg.hostname \o StripePath(f)]
              /\ StartFetch(ProxyFetch(StripeCfg.vsockPort, StripeCfg.hostname, "GET",
                              StripePathWithQuery(f),
                              << <<"Authorization", "Bearer " \o f.apiKey>>,
                                 <<"Content-Type", "application/x-www-form-urlencoded">>,
                                 <<"Stripe-Version", STRIPE_API_VERSION>> >>
                              \o (IF ~Falsy(f.stripeAccount)
                                  THEN << <<"Stripe-Account", f.stripeAccount>> >>
                                  ELSE <<>>),
                              None))
              /\ resp' = resp
  /\ UNCHANGED <<connVars, req, attArgs, draft, att, nsmCalls, err, sent, frameVars, parentVars, fetchVars, codec, unitVars>>

\* The GET resolved: status, JSON and object checks, six slots, attest
StripeFetchDone ==
  /\ pc = "fetch"
  /\ Handler = "stripe"
  /\ \E r \in StripeUpstream :
       LET f == work.fields
           json == ParseStripeJson(r.body)
           expectedType == OPERATION_OBJECT_TYPE[f.operation]
           isListOp == expectedType = "list"
           dataHash == Sha256Hex(r.body)
           totalCount == IF isListOp THEN json.count ELSE 0
           hasMore == IF isListOp /\ json.hasMore THEN 1 ELSE 0
           values == <<f.operation, OrEmpty(f.stripeAccount), json.object, dataHash,
                       Decimal(totalCount), Decimal(hasMore)>>
           rawBody == Base64(EncodeFieldElements(STRIPE_PAYMENT_SCHEMA, values))
       IN  /\ fetches' = FetchResolved(r)
           /\ IF r.status # 200
              THEN /\ Return(Failure(502, <<>>,
                        "Stripe API returned status " \o Decimal(r.status) \o ": " \o r.body))
                   /\ UNCHANGED <<attArgs, draft>>
              ELSE IF ~json.ok
              THEN /\ Return(Failure(502, <<>>, "Stripe API returned invalid JSON"))
                   /\ UNCHANGED <<attArgs, draft>>
              ELSE IF json.object # expectedType
              THEN /\ Return(Failure(502, <<>>, "Unexpected Stripe object type"))
                   /\ UNCHANGED <<attArgs, draft>>
              ELSE IF ~EncodeOk(STRIPE_PAYMENT_SCHEMA, values)
              THEN /\ Return(Failure(502, <<>>, "shortString exceeds 31 bytes"))
                   /\ UNCHANGED <<attArgs, draft>>
              ELSE /\ StartAttest(
                        AttestArgs(work.apiEndpoint, "GET", rawBody,
                                   "https://" \o StripeCfg.hostname \o work.path,
                                   << <<"operation", f.operation>>,
                                      <<"stripeAccount", OrEmpty(f.stripeAccount)>> >>),
                        200,
                        << <<"x-stripe-operation", f.operation>>,
                           <<"x-stripe-account-id", OrEmpty(f.stripeAccount)>>,
                           <<"x-stripe-object-type", json.object>>,
                           <<"x-stripe-data-hash", dataHash>>,
                           <<"x-stripe-total-count", Decimal(totalCount)>>,
                           <<"x-stripe-has-more", Decimal(hasMore)>>,
                           <<"x-stripe-response-body", r.body>> >>)
                   /\ resp' = resp
  /\ log' = Append(log, "fetch-end")
  /\ UNCHANGED <<connVars, req, work, att, nsmCalls, err, sent, frameVars, parentVars, fetchVars, codec, unitVars>>

\* ------------------------------------------------------------------------
\* handleConnection after the handler returned
\* ------------------------------------------------------------------------

\* What a writeMessage call can come to: the whole frame written; the payload
\* over 16 MiB (thrown before any write); stream.write throwing with nothing,
\* or with part of the frame, written
WriteOutcomes == {"ok", "too-large", "io-error", "io-error-partial"}

WriteError(w) ==
  IF w = "too-large" THEN "Message too large" ELSE "vsock write failed"

\* the writeMessage call as the connection saw it: the frame it was given and
\* how much of it reached the stream
Written(frame, w) ==
  CASE w = "ok" -> <<[frame |-> frame, bytes |-> "all"]>>
    [] w = "io-error-partial" -> <<[frame |-> frame, bytes |-> "part"]>>
    [] OTHER -> <<[frame |-> frame, bytes |-> "none"]>>

\* await writeMessage(conn, response)
WriteReply ==
  /\ pc = "write"
  /\ \E w \in WriteOutcomes :
       /\ sent' = sent \o Written(Get(resp), w)
       /\ IF w = "ok"
          THEN /\ pc' = "close"
               /\ err' = err
               /\ log' = Append(log, "write")
          ELSE /\ pc' = "catch"
               /\ err' = Some(WriteError(w))
               /\ log' = Append(log, "write-failed")
  /\ UNCHANGED <<connVars, req, work, fetches, attArgs, draft, att, nsmCalls, resp, frameVars, parentVars, fetchVars, codec, unitVars>>

\* An error reply that reuses the handlers' status 502
ErrorResponse502(e) ==
  [success |-> FALSE, status |-> 502, headers |-> <<>>, rawBody |-> "",
   error |-> Some(e), attestation |-> None]

\* A catch block without the finally: it leaves handleConnection at once
ErrorReplyNoFinally ==
  /\ pc = "catch"
  /\ sent' = Append(sent, [frame |-> ErrorResponse502(Get(err)), bytes |-> "none"])
  /\ log' = Append(log, "error-write-failed")
  /\ pc' = "accept"
  /\ UNCHANGED <<connVars, req, work, fetches, attArgs, draft, att, nsmCalls, resp, err,
                 frameVars, parentVars, fetchVars, codec, unitVars>>

\* The catch block: one attempt to write the status-500 reply; a failure of
\* that write is swallowed
ErrorResponse(e) == Failure(500, <<>>, e)

ErrorReply ==
  /\ pc = "catch"
  /\ \E w \in WriteOutcomes :
       /\ sent' = sent \o Written(ErrorResponse(Get(err)), w)
       /\ log' = Append(log, IF w = "ok" THEN "error-write" ELSE "error-write-failed")
  /\ pc' = "close"
  /\ UNCHANGED <<connVars, req, work, fetches, attArgs, draft, att, nsmCalls, resp, err, frameVars, parentVars, fetchVars, codec, unitVars>>

\* The finally block: conn.close(), an exception of which is swallowed; then
\* handleConnection returns and the loop goes back to accept(). The descriptor
\* is released whether or not close() reports an error.
CloseOutcomes == {"ok", "throws"}

Close ==
  /\ pc = "close"
  /\ \E o \in CloseOutcomes :
       log' = Append(log, IF o = "ok" THEN "close" ELSE "close-failed")
  /\ conn' = [conn EXCEPT ![cur].state = "closed",
                          ![cur].closeCalls = conn[cur].closeCalls + 1]
  /\ pc' = "accept"
  /\ UNCHANGED <<service, cur, acceptFails, req, work, fetches, attArgs, draft, att,
                 nsmCalls, resp, err, sent, frameVars, parentVars, fetchVars, codec, unitVars>>

\* ------------------------------------------------------------------------
\* Length-prefixed framing (writeMessage, readMessage, readExact) over a
\* byte stream. A byte of the stream is named by the frame it belongs to and
\* its offset in that frame; a run of bytes is an interval [msg, lo, hi) and
\* the stream, like every buffer, is a sequence of such runs. Byte values are
\* computed from the value that was serialised.
\* ------------------------------------------------------------------------
Min(a, b) == IF a <= b THEN a ELSE b

\* JSON values handed to writeMessage: the number 7 and strings of n letters
\* "a" (payloads of 1 byte, of one byte more than the 65536-byte read cap, of
\* exactly 16 MiB and of one byte more)
Str(n) == [kind |-> "string", n |-> n]

\* A JSON object on the stream: the text JSON.stringify gave and the value it
\* spells
Object(text, value) == [kind |-> "object", text |-> text, value |-> value]

\* The frame of a peer that is not this code: a header announcing n bytes and
\* n bytes "a" that are no JSON text
Raw(n) == [kind |-> "raw", n |-> n]
Values ==
  { [kind |-> "number", n |-> 7], Str(READ_CHUNK - 1),
    Str(MAX_MESSAGE_SIZE - 2), Str(MAX_MESSAGE_SIZE - 1) }

\* Buffer.from(JSON.stringify(data), 'utf-8'): its length and its bytes
PayloadLength(v) ==
  CASE v.kind = "number" -> Len(Decimal(v.n))
    [] v.kind = "null" -> 4
    [] v.kind = "object" -> Len(v.text)
    [] v.kind = "raw" -> v.n
    [] OTHER -> v.n + 2

PayloadByte(v, i) ==
  CASE v.kind = "number" -> 48 + v.n
    [] v.kind = "null" -> <<110, 117, 108, 108>>[i + 1]
    [] v.kind = "object" -> IF i = 0 THEN 123 ELSE IF i = Len(v.text) - 1 THEN 125 ELSE 120
    [] v.kind = "raw" -> 97
    [] OTHER -> IF i = 0 \/ i = v.n + 1 THEN 34 ELSE 97

\* header.writeUInt32BE(payload.length, 0)
HeaderByte(len, i) ==
  CASE i = 0 -> (len \div 16777216) % 256
    [] i = 1 -> (len \div 65536) % 256
    [] i = 2 -> (len \div 256) % 256
    [] OTHER -> len % 256

\* Buffer.concat([header, payload])
FrameLength(v) == HEADER_SIZE + PayloadLength(v)
FrameByte(v, p) ==
  IF p < HEADER_SIZE THEN HeaderByte(PayloadLength(v), p)
  ELSE PayloadByte(v, p - HEADER_SIZE)

Run(m, lo, hi) == [msg |-> m, lo |-> lo, hi |-> hi]

RECURSIVE RunsLength(_)
RunsLength(runs) ==
  IF runs = <<>> THEN 0
  ELSE (Head(runs).hi - Head(runs).lo) + RunsLength(Tail(runs))

\* runs followed by one more run (adjacent runs of a frame are one run)
AppendRun(runs, r) ==
  IF r.lo = r.hi THEN runs
  ELSE IF runs # <<>> /\ runs[Len(runs)].msg = r.msg /\ runs[Len(runs)].hi = r.lo
  THEN [runs EXCEPT ![Len(runs)].hi = r.hi]
  ELSE Append(runs, r)

\* Buffer.concat(chunks)
RECURSIVE ConcatRuns(_, _)
ConcatRuns(acc, runs) ==
  IF runs = <<>> THEN acc ELSE ConcatRuns(AppendRun(acc, Head(runs)), Tail(runs))

\* the first n bytes of a sequence of runs, and what is left after them
RECURSIVE TakeRuns(_, _)
TakeRuns(runs, n) ==
  IF n = 0 \/ runs = <<>> THEN <<>>
  ELSE LET h == Head(runs)
       IN  IF h.hi - h.lo <= n
           THEN <<h>> \o TakeRuns(Tail(runs), n - (h.hi - h.lo))
           ELSE <<Run(h.msg, h.lo, h.lo + n)>>

RECURSIVE DropRuns(_, _)
DropRuns(runs, n) ==
  IF n = 0 \/ runs = <<>> THEN runs
  ELSE LET h == Head(runs)
       IN  IF h.hi - h.lo <= n THEN DropRuns(Tail(runs), n - (h.hi - h.lo))
           ELSE <<Run(h.msg, h.lo + n, h.hi)>> \o Tail(runs)

\* the value of byte i (from 0) of a buffer
RECURSIVE ByteAt(_, _)
ByteAt(runs, i) ==
  LET h == Head(runs)
  IN  IF i < h.hi - h.lo THEN FrameByte(wmsgs[h.msg], h.lo + i)
      ELSE ByteAt(Tail(runs), i - (h.hi - h.lo))

\* header.readUInt32BE(0)
ReadUInt32BE(buf) ==
  ByteAt(buf, 0) * 16777216 + ByteAt(buf, 1) * 65536 + ByteAt(buf, 2) * 256 + ByteAt(buf, 3)

\* JSON.parse(payload.toString('utf-8')): the value whose text the bytes
\* spell, if they are one payload from its first byte to its last
JsonParse(buf) ==
  LET len == RunsLength(buf)
      fits == {v \in Values :
                 /\ PayloadLength(v) = len
                 /\ PayloadByte(v, 0) = ByteAt(buf, 0)
                 /\ PayloadByte(v, len - 1) = ByteAt(buf, len - 1)}
      whole == /\ Len(buf) = 1
               /\ buf[1].lo = HEADER_SIZE
               /\ buf[1].hi = FrameLength(wmsgs[buf[1].msg])
  IN  IF whole /\ wmsgs[buf[1].msg].kind = "object" THEN Some(wmsgs[buf[1].msg])
      ELSE IF whole /\ fits # {} THEN Some(CHOOSE v \in fits : TRUE)
      ELSE None

\* What a stream.write of n bytes may accept, and what a stream.read asked
\* for n available bytes may return: all of them, or fewer
ShortSizes(n) == {k \in {0, 1, n \div 2, n - 1} : k >= 0 /\ k < n}

\* The frames on the stream are those of the values writeMessage accepted
CurMsg == Len(wmsgs)

writerVars == <<wmsgs, wres, wpc, woff, wclosed, wshort>>
readerVars == <<rpc, rneed, rchunks, rlen, rgot, rcount, rshort>>

\* A writeMessage that puts the header on the stream and then checks the size
WriteMessageCheckLate ==
  /\ wpc = "idle"
  /\ ~wclosed
  /\ Len(wmsgs) < MaxMsgs
  /\ \E v \in Values :
       /\ wmsgs' = Append(wmsgs, v)
       /\ wire' = AppendRun(wire, Run(Len(wmsgs) + 1, 0, HEADER_SIZE))
       /\ IF PayloadLength(v) > MAX_MESSAGE_SIZE
          THEN /\ wres' = Append(wres, "too-large")
               /\ wpc' = "idle"
          ELSE /\ wres' = Append(wres, "")
               /\ wpc' = "writing"
  /\ woff' = HEADER_SIZE
  /\ UNCHANGED <<wclosed, wshort, readerVars, loopVars, parentVars, fetchVars, codec, unitVars>>

\* writeMessage(stream, v) up to its loop: a payload over 16 MiB throws
\* before anything is written
WriteMessageStart ==
  /\ wpc = "idle"
  /\ ~wclosed
  /\ Len(wmsgs) < MaxMsgs
  /\ \E v \in Values :
       /\ wmsgs' = Append(wmsgs, v)
       /\ IF PayloadLength(v) > MAX_MESSAGE_SIZE
          THEN /\ wres' = Append(wres, "too-large")
               /\ wpc' = "idle"
          ELSE /\ wres' = Append(wres, "")
               /\ wpc' = "writing"
  /\ woff' = 0
  /\ UNCHANGED <<wire, wclosed, wshort, readerVars, loopVars, parentVars, fetchVars, codec, unitVars>>

\* One turn of the loop of writeMessage: stream.write(frame.subarray(offset))
\* accepts `written` bytes, offset += written
StreamWrite ==
  /\ wpc = "writing"
  /\ ~wclosed
  /\ LET rest == FrameLength(wmsgs[CurMsg]) - woff
     IN  \E written \in {rest} \cup (IF wshort < MaxShort THEN ShortSizes(rest) ELSE {}) :
           /\ wire' = AppendRun(wire, Run(CurMsg, woff, woff + written))
           /\ woff' = woff + written
           /\ wshort' = IF written < rest THEN wshort + 1 ELSE wshort
           /\ IF written = rest
              THEN /\ wpc' = "idle"
                   /\ wres' = [wres EXCEPT ![CurMsg] = "done"]
              ELSE UNCHANGED <<wpc, wres>>
  /\ UNCHANGED <<wmsgs, wclosed, readerVars, loopVars, parentVars, fetchVars, codec, unitVars>>

\* The writing end goes away: stream.write throws in the middle of a frame,
\* or the writer closes the stream between two frames
StreamEnd ==
  /\ ~wclosed
  /\ wclosed' = TRUE
  /\ wpc' = "idle"
  /\ wres' = IF wpc = "writing" THEN [wres EXCEPT ![CurMsg] = "io-error"] ELSE wres
  /\ UNCHANGED <<wmsgs, woff, wire, wshort, readerVars, loopVars, parentVars, fetchVars, codec, unitVars>>

\* A read that always asks for a whole 65536-byte chunk
ReadWholeChunk(remaining) == READ_CHUNK

\* readExact: const readSize = Math.min(remaining, 65536)
ReadSize(remaining) == Min(remaining, READ_CHUNK)

ReadFailed(msg, consumed) ==
  [ok |-> FALSE, value |-> None, error |-> msg, consumed |-> consumed]

ReadReturned(buf, consumed) ==
  IF JsonParse(buf) = None THEN ReadFailed("Unexpected token in JSON", consumed)
  ELSE [ok |-> TRUE, value |-> JsonParse(buf), error |-> "", consumed |-> consumed]

\* readMessage(stream) up to the first stream.read: readExact(stream, 4)
ReadMessageStart ==
  /\ rpc = "idle"
  /\ Len(rgot) < MaxMsgs
  /\ rpc' = "header"
  /\ rneed' = HEADER_SIZE
  /\ rchunks' = <<>>
  /\ UNCHANGED <<rlen, rgot, rcount, rshort, writerVars, wire, loopVars, parentVars, fetchVars, codec, unitVars>>

\* One turn of the loop of readExact: stream.read(readSize) returns a
\* non-empty chunk. When that completes the header, readMessage decodes and
\* checks the length and goes on to readExact(stream, length); when it
\* completes the payload, readMessage parses it and returns.
StreamRead ==
  /\ rpc \in {"header", "payload"}
  /\ wire # <<>>
  /\ LET most == Min(ReadSize(rneed), RunsLength(wire))
     IN  \E n \in {most} \cup (IF rshort < MaxShort THEN ShortSizes(most) \ {0} ELSE {}) :
           LET chunks == ConcatRuns(rchunks, TakeRuns(wire, n))
               length == ReadUInt32BE(chunks)
           IN  /\ wire' = DropRuns(wire, n)
               /\ rcount' = rcount + n
               /\ rshort' = IF n < ReadSize(rneed) THEN rshort + 1 ELSE rshort
               /\ IF n < rneed
                  THEN /\ rneed' = rneed - n
                       /\ rchunks' = chunks
                       /\ UNCHANGED <<rpc, rlen, rgot>>
                  ELSE IF rpc = "header"
                  THEN IF length = 0
                       THEN /\ rgot' = Append(rgot, ReadFailed("Empty message received",
                                                               rcount + n))
                            /\ rpc' = "failed"
                            /\ rneed' = 0
                            /\ rchunks' = <<>>
                            /\ rlen' = length
                       ELSE IF length > MAX_MESSAGE_SIZE
                       THEN /\ rgot' = Append(rgot, ReadFailed("Message too large",
                                                               rcount + n))
                            /\ rpc' = "failed"
                            /\ rneed' = 0
                            /\ rchunks' = <<>>
                            /\ rlen' = length
                       ELSE /\ rpc' = "payload"
                            /\ rlen' = length
                            /\ rneed' = length
                            /\ rchunks' = <<>>
                            /\ rgot' = rgot
                  ELSE /\ rgot' = Append(rgot,
                                    ReadReturned(chunks, rcount + n))
                       /\ rpc' = "idle"
                       /\ rneed' = 0
                       /\ rchunks' = <<>>
                       /\ rlen' = rlen
  /\ UNCHANGED <<writerVars, loopVars, parentVars, fetchVars, codec, unitVars>>

\* stream.read returns a zero-length chunk (end of stream): readExact throws
StreamReadEof ==
  /\ rpc \in {"header", "payload"}
  /\ wire = <<>>
  /\ wclosed
  /\ rgot' = Append(rgot, ReadFailed("Connection closed", rcount))
  /\ rpc' = "failed"
  /\ UNCHANGED <<rneed, rchunks, rlen, rcount, rshort, writerVars, wire, loopVars, parentVars, fetchVars, codec, unitVars>>

FrameNext ==
  \/ WriteMessageStart
  \/ StreamWrite
  \/ StreamEnd
  \/ ReadMessageStart
  \/ StreamRead
  \/ StreamReadEof

FrameSpecInit ==
  FrameInit /\ LoopInit /\ service = "vies" /\ ParentInit /\ FetchInit /\ codec = NoCodec
  /\ UnitInit

FrameSpec == FrameSpecInit /\ [][FrameNext]_vars

\* ------------------------------------------------------------------------
\* The parent server on the host: the routing table, POST /attest/fetch,
\* sendToEnclave over one socat process per call, and GET /health
\* ------------------------------------------------------------------------
ROUTES ==
  << [cid |-> VIES_CID, port |-> 5000,
      hosts |-> <<"ec.europa.eu", "api.service.hmrc.gov.uk">>],
     [cid |-> SICAE_CID, port |-> 5000, hosts |-> <<"www.sicae.pt">>] >>

\* route.hosts.includes(hostname)
HostsInclude(hosts, hostname) == \E k \in 1..Len(hosts) : hosts[k] = hostname

\* A lookup that returns the first route whatever the hostname
FindFirstRoute(url) == Some(ROUTES[1])

\* findRoute(url): the first route whose hosts include the hostname of the
\* URL; null when there is none or `new URL(url)` throws
FindRoute(url) ==
  LET parsed == ParseUrl(url)
      hits == {k \in 1..Len(ROUTES) : HostsInclude(ROUTES[k].hosts, parsed.hostname)}
  IN  IF ~parsed.ok \/ hits = {} THEN None
      ELSE Some(ROUTES[CHOOSE k \in hits : \A j \in hits : k <= j])

\* The JSON bodies posted to /attest/fetch: {id, url, method, headers, body}
HttpBody(id, url, method, headers) ==
  [id |-> id, url |-> url, method |-> method, headers |-> headers, body |-> None]

HttpBodies ==
  { HttpBody("r1", Undefined, "GET", None),
    HttpBody("r1", "https://ec.europa.eu/taxation_customs/vies/services/checkVatService",
             Undefined, None),
    HttpBody("r1", "not a url", "GET", None),
    HttpBody("r1", "https://ec.europa.eu.evil.example/a", "GET", None),
    HttpBody("r1", "https://api.stripe.com/v1/charges", "POST", None),
    HttpBody("r1", "https://ec.europa.eu/taxation_customs/vies/services/checkVatService",
             "POST", Some(<< <<"accept", "*/*">> >>)),
    HttpBody(Undefined, "http://www.sicae.pt/Consulta.aspx", "GET", None) }

HttpAnswer(status, json) == [status |-> status, json |-> json]

\* res.status(status).json({success: false, error})
HttpError(status, msg) == HttpAnswer(status, [success |-> FALSE, error |-> msg])

\* const enclaveRequest = {id: requestId, url, method, headers: headers || {}, body}
EnclaveRequestOf(i, body) ==
  [isNull |-> FALSE,
   id |-> IF Falsy(body.id) THEN "uuid-" \o Digit(i) ELSE body.id,
   url |-> body.url, method |-> body.method,
   headers |-> IF IsSome(body.headers) THEN Get(body.headers) ELSE <<>>,
   body |-> body.body]

\* spawn('socat', ['STDIO', `VSOCK-CONNECT:${cid}:${port}`]), the request frame
\* written to its stdin, the 30 s timer armed
Spawn(cid, port, request) ==
  [NoProc EXCEPT !.phase = "spawned", !.cid = cid, !.port = port,
                 !.stdin = Some(request), !.timer = "armed"]

\* The handler of POST /attest/fetch up to its await
PostAttestFetch(i) ==
  /\ calls[i].pc = "idle"
  /\ \A j \in 1..(i - 1) : calls[j].pc # "idle"
  /\ \E body \in HttpBodies :
       LET route == FindRoute(body.url)
           answered(a) == [pc |-> "done", body |-> Some(body), request |-> None,
                           res |-> Some(a)]
       IN  IF Falsy(body.url) \/ Falsy(body.method)
           THEN /\ calls' = [calls EXCEPT
                               ![i] = answered(HttpError(400,
                                        "Missing required fields: url, method"))]
                /\ procs' = procs
           ELSE IF route = None
           THEN /\ calls' = [calls EXCEPT
                               ![i] = answered(HttpError(404,
                                        "No enclave configured for URL: " \o body.url))]
                /\ procs' = procs
           ELSE /\ calls' = [calls EXCEPT
                               ![i] = [pc |-> "await", body |-> Some(body),
                                       request |-> Some(EnclaveRequestOf(i, body)),
                                       res |-> None]]
                /\ procs' = [procs EXCEPT
                               ![i] = Spawn(Get(route).cid, Get(route).port,
                                            EnclaveRequestOf(i, body))]
  /\ UNCHANGED <<backlog, serving, health, loopVars, frameVars, fetchVars, codec, unitVars>>

\* The promise of sendToEnclave: the first resolve or reject settles it
Rejected(msg) == [ok |-> FALSE, value |-> None, error |-> msg]
Resolved(v) == [ok |-> TRUE, value |-> Some(v), error |-> ""]
\* A promise that takes the last resolve or reject it is given
SettleOverwrite(p, o) == [p EXCEPT !.outcome = Some(o)]

Settle(p, o) == IF p.outcome = None THEN [p EXCEPT !.outcome = Some(o)] ELSE p

\* cleanup(): clearTimeout(timer)
Cleanup(p) == [p EXCEPT !.timer = IF p.timer = "armed" THEN "cleared" ELSE p.timer]

\* the exit code of a process ended by a signal (null)
SIGNALLED == -1

\* proc.on('error'): socat could not be started
SpawnError(i) ==
  /\ procs[i].phase = "spawned"
  /\ ~procs[i].outClosed
  /\ procs' = [procs EXCEPT
                 ![i] = Settle(Cleanup([procs[i] EXCEPT !.phase = "failed"]),
                               Rejected("socat spawn failed"))]
  /\ UNCHANGED <<calls, backlog, serving, health, loopVars, frameVars, fetchVars, codec, unitVars>>

\* socat connects to the enclave's port: the connection waits in the listen
\* queue of that enclave
Dial(i) ==
  /\ procs[i].phase = "spawned"
  /\ ~procs[i].outClosed
  /\ procs' = [procs EXCEPT ![i].phase = "connected"]
  /\ backlog' = [backlog EXCEPT ![procs[i].cid] = Append(@, i)]
  /\ UNCHANGED <<calls, serving, health, loopVars, frameVars, fetchVars, codec, unitVars>>

\* socat cannot connect (no enclave on that CID): it exits with code 1 having
\* written nothing to its stdout
DialFail(i) ==
  /\ procs[i].phase = "spawned"
  /\ ~procs[i].outClosed
  /\ procs' = [procs EXCEPT ![i].phase = "exited", ![i].outClosed = TRUE,
                            ![i].code = Some(1)]
  /\ UNCHANGED <<calls, backlog, serving, health, loopVars, frameVars, fetchVars, codec, unitVars>>

\* The timer of sendToEnclave fires: proc.kill('SIGKILL') and reject
Timeout(i) ==
  /\ procs[i].timer = "armed"
  /\ procs' = [procs EXCEPT
                 ![i] = Settle([procs[i] EXCEPT
                                  !.timer = "fired", !.outClosed = TRUE,
                                  !.code = IF @ = None THEN Some(SIGNALLED) ELSE @],
                               Rejected("Enclave request timed out"))]
  /\ UNCHANGED <<calls, backlog, serving, health, loopVars, frameVars, fetchVars, codec, unitVars>>

\* proc.stdout.on('data'): chunks.push(chunk), for a chunk of any size
StdoutData(i) ==
  /\ procs[i].out # <<>>
  /\ ~procs[i].ended
  /\ LET avail == RunsLength(procs[i].out)
     IN  \E n \in {avail} \cup (IF procs[i].short < MaxShort
                                THEN {avail \div 2} \ {0} ELSE {}) :
           procs' = [procs EXCEPT
                       ![i].chunks = ConcatRuns(@, TakeRuns(procs[i].out, n)),
                       ![i].out = DropRuns(@, n),
                       ![i].short = IF n < avail THEN @ + 1 ELSE @]
  /\ UNCHANGED <<calls, backlog, serving, health, loopVars, frameVars, fetchVars, codec, unitVars>>

\* The body of the 'end' handler after cleanup(): the frame is taken from
\* everything that was collected
ParseEnclaveResponse(data) ==
  IF RunsLength(data) < HEADER_SIZE THEN Rejected("Incomplete response from enclave")
  ELSE LET responseLength == ReadUInt32BE(data)
           parsed == JsonParse(TakeRuns(DropRuns(data, HEADER_SIZE), responseLength))
       IN  IF RunsLength(data) < HEADER_SIZE + responseLength
           THEN Rejected("Truncated response")
           ELSE IF parsed = None
           THEN Rejected("Failed to parse enclave response")
           ELSE Resolved(Get(parsed))

\* proc.stdout.on('end')
StdoutEnd(i) ==
  /\ procs[i].phase \in {"spawned", "connected", "exited"}
  /\ procs[i].outClosed
  /\ procs[i].out = <<>>
  /\ ~procs[i].ended
  /\ procs' = [procs EXCEPT
                 ![i] = Settle(Cleanup([procs[i] EXCEPT !.ended = TRUE]),
                               ParseEnclaveResponse(procs[i].chunks))]
  /\ UNCHANGED <<calls, backlog, serving, health, loopVars, frameVars, fetchVars, codec, unitVars>>

\* proc.on('close'), emitted once socat has exited and its stdout has ended
ProcClose(i) ==
  /\ procs[i].ended
  /\ ~procs[i].closed
  /\ IsSome(procs[i].code)
  /\ procs' = [procs EXCEPT
                 ![i] = IF Get(procs[i].code) \notin {0, SIGNALLED}
                        THEN Settle(Cleanup([procs[i] EXCEPT !.closed = TRUE]),
                                    Rejected("socat exited with code 1"))
                        ELSE [procs[i] EXCEPT !.closed = TRUE]]
  /\ UNCHANGED <<calls, backlog, serving, health, loopVars, frameVars, fetchVars, codec, unitVars>>

\* The handler of POST /attest/fetch after its await: res.json(response), or
\* the catch block's 502
AwaitReturn(i) ==
  /\ calls[i].pc = "await"
  /\ IsSome(procs[i].outcome)
  /\ LET o == Get(procs[i].outcome)
         response == Get(o.value)
     IN  calls' = [calls EXCEPT
                     ![i].pc = "done",
                     ![i].res =
                       IF o.ok
                       THEN Some(HttpAnswer(200, IF response.kind = "object"
                                                 THEN response.value ELSE response))
                       ELSE Some(HttpError(502,
                                   "Enclave communication failed: " \o o.error))]
  /\ UNCHANGED <<procs, backlog, serving, health, loopVars, frameVars, fetchVars, codec, unitVars>>

\* ------------------------------------------------------------------------
\* The enclave as the parent's connections see it: startEnclave's loop takes
\* one connection at a time from the listen queue and handleConnection
\* answers on that connection
\* ------------------------------------------------------------------------
AttestationText(a) ==
  "{\"attestationId\":\"" \o a.attestationId \o "\",\"responseHash\":\"" \o a.responseHash
  \o "\",\"requestHash\":\"" \o a.requestHash \o "\",\"apiEndpoint\":\"" \o a.apiEndpoint
  \o "\",\"apiMethod\":\"" \o a.apiMethod \o "\",\"timestamp\":" \o Decimal(a.timestamp)
  \o ",\"nsmDocument\":\"" \o a.nsmDocument \o "\",\"pcrs\":{\"pcr0\":\"" \o a.pcrs.pcr0
  \o "\",\"pcr1\":\"" \o a.pcrs.pcr1 \o "\",\"pcr2\":\"" \o a.pcrs.pcr2
  \o "\"},\"nonce\":\"" \o a.nonce \o "\"}"

\* JSON.stringify(response) of an EnclaveResponse
ResponseText(r) ==
  "{\"success\":" \o (IF r.success THEN "true" ELSE "false")
  \o ",\"status\":" \o Decimal(r.status)
  \o ",\"headers\":" \o JsonStringify(r.headers)
  \o ",\"rawBody\":\"" \o r.rawBody \o "\""
  \o (IF IsSome(r.error) THEN ",\"error\":\"" \o Get(r.error) \o "\"" ELSE "")
  \o (IF IsSome(r.attestation)
      THEN ",\"attestation\":" \o AttestationText(Get(r.attestation)) ELSE "")
  \o "}"

\* What the handler of an enclave can return for a request: an attested reply
\* bound to that request (attest draws a fresh UUID on each call), or a failure
EnclaveReplies(request, uuid) ==
  LET u == ParseUrl(request.url)
      args == AttestArgs(u.hostname \o u.pathname, request.method, "upstream body",
                         request.url, request.headers)
  IN  { Success(200, <<>>, "upstream body",
                AttestFinish(AttestDraft(args, 1700000000, uuid), "document")),
        Failure(502, <<>>, "fetch failed for " \o request.url) }

\* The writeMessage calls of one handleConnection as far as they reached the
\* stream: the reply whole; or the reply in part or not at all and then the
\* status-500 reply, whole or not at all
ServeOutcomes ==
  { <<"all">>, <<"none", "all">>, <<"part", "all">>, <<"none", "none">>, <<"part", "none">> }

\* the bytes of frame m that a write put on the stream
WrittenRun(m, bytes) ==
  CASE bytes = "all" -> <<Run(m, 0, FrameLength(wmsgs'[m]))>>
    [] bytes = "part" -> <<Run(m, 0, FrameLength(wmsgs'[m]) \div 2)>>
    [] OTHER -> <<>>

\* A reply written on the connection that was dialled last
ReplyTargetNewest(cid) ==
  CHOOSE i \in CallIds :
    /\ procs[i].phase = "connected"
    /\ procs[i].cid = cid
    /\ \A j \in CallIds : procs[j].phase = "connected" /\ procs[j].cid = cid => j <= i

\* The connection a finished handleConnection wrote its reply on
ReplyTarget(cid) == serving[cid]

\* const conn = await listener.accept()
EnclaveAccept(cid) ==
  /\ serving[cid] = 0
  /\ backlog[cid] # <<>>
  /\ serving' = [serving EXCEPT ![cid] = Head(backlog[cid])]
  /\ backlog' = [backlog EXCEPT ![cid] = Tail(@)]
  /\ UNCHANGED <<calls, procs, health, loopVars, frameVars, fetchVars, codec, unitVars>>

\* await handleConnection(conn, handler); conn.close(): socat sees the end of
\* the connection and exits
EnclaveServe(cid) ==
  /\ serving[cid] # 0
  /\ LET i == serving[cid]
         t == ReplyTarget(cid)
     IN  \E reply \in EnclaveReplies(Get(procs[i].stdin), "u" \o Digit(i)), ws \in ServeOutcomes :
           LET first == Len(wmsgs) + 1
               failed == Failure(500, <<>>, "vsock write failed")
               frames == <<Object(ResponseText(reply), reply)>>
                         \o (IF Len(ws) = 2 THEN <<Object(ResponseText(failed), failed)>>
                             ELSE <<>>)
               bytes == WrittenRun(first, ws[1])
                        \o (IF Len(ws) = 2 THEN WrittenRun(first + 1, ws[2]) ELSE <<>>)
               closed(p) == [p EXCEPT !.outClosed = TRUE,
                                      !.code = IF @ = None THEN Some(0) ELSE @]
               served(p) == [p EXCEPT !.reply = Some(reply)]
               wrote(p) == IF p.outClosed THEN p
                           ELSE [p EXCEPT !.out = ConcatRuns(@, bytes)]
           IN  /\ wmsgs' = wmsgs \o frames
               /\ procs' = [j \in CallIds |->
                              LET a == IF j = i THEN served(procs[j]) ELSE procs[j]
                                  b == IF j = t THEN wrote(a) ELSE a
                              IN  IF j = i THEN closed(b) ELSE b]
  /\ serving' = [serving EXCEPT ![cid] = 0]
  /\ UNCHANGED <<calls, backlog, health, loopVars, wres, wpc, woff, wire, wclosed, wshort,
                 readerVars, fetchVars, codec, unitVars>>

ParentNext ==
  \/ \E i \in CallIds : PostAttestFetch(i)
  \/ \E i \in CallIds : SpawnError(i)
  \/ \E i \in CallIds : Dial(i)
  \/ \E i \in CallIds : DialFail(i)
  \/ \E i \in CallIds : Timeout(i)
  \/ \E i \in CallIds : StdoutData(i)
  \/ \E i \in CallIds : StdoutEnd(i)
  \/ \E i \in CallIds : ProcClose(i)
  \/ \E i \in CallIds : AwaitReturn(i)
  \/ \E cid \in Cids : EnclaveAccept(cid)
  \/ \E cid \in Cids : EnclaveServe(cid)

ParentSpecInit == Init /\ service = "vies"

ParentSpec == ParentSpecInit /\ [][ParentNext]_vars

\* ------------------------------------------------------------------------
\* The two frame readers facing a peer that is not bound by writeMessage:
\* sendToEnclave writes header and payload with no size check, and whatever
\* process answers on the vsock connection may send any header
\* ------------------------------------------------------------------------
PeerFrames == Values \cup {Raw(0)}

\* The peer of readMessage puts a whole frame on the stream
PeerWrite ==
  /\ calls[1].pc = "idle"
  /\ ~wclosed
  /\ Len(wmsgs) < MaxMsgs
  /\ \E f \in PeerFrames :
       /\ wmsgs' = Append(wmsgs, f)
       /\ wres' = Append(wres, "done")
       /\ wire' = AppendRun(wire, Run(Len(wmsgs) + 1, 0, FrameLength(f)))
  /\ UNCHANGED <<wpc, woff, wclosed, wshort, readerVars, loopVars, parentVars, fetchVars, codec, unitVars>>

\* The peer of sendToEnclave answers on the connection with a whole frame and
\* closes it
PeerReply(i) ==
  /\ procs[i].phase = "connected"
  /\ ~procs[i].outClosed
  /\ \E f \in PeerFrames :
       /\ wmsgs' = Append(wmsgs, f)
       /\ procs' = [procs EXCEPT
                      ![i].out = <<Run(Len(wmsgs) + 1, 0, FrameLength(f))>>,
                      ![i].outClosed = TRUE,
                      ![i].code = Some(0)]
  /\ UNCHANGED <<calls, backlog, serving, health, loopVars, wres, wpc, woff, wire, wclosed,
                 wshort, readerVars, fetchVars, codec, unitVars>>

\* A request reaches the parent server while nothing is on the other stream
PeerPost ==
  /\ wmsgs = <<>>
  /\ rpc = "idle"
  /\ rgot = <<>>
  /\ ~wclosed
  /\ PostAttestFetch(1)

PeerNext ==
  \/ PeerWrite
  \/ StreamEnd
  \/ ReadMessageStart
  \/ StreamRead
  \/ StreamReadEof
  \/ PeerPost
  \/ Dial(1)
  \/ PeerReply(1)
  \/ Timeout(1)
  \/ StdoutData(1)
  \/ StdoutEnd(1)
  \/ ProcClose(1)
  \/ AwaitReturn(1)

PeerSpecInit == Init /\ service = "vies"

PeerSpec == PeerSpecInit /\ [][PeerNext]_vars

\* ------------------------------------------------------------------------
\* GET /health
\* ------------------------------------------------------------------------
\* What `nitro-cli describe-enclaves` can do: fail or time out (execSync
\* throws), print text that is no JSON, or print the list of the enclaves,
\* each with its own CID
EnclaveInfos ==
  [EnclaveCID : {VIES_CID, SICAE_CID, 99}, State : {"RUNNING", "TERMINATING", "PENDING"}]

CliLists ==
  {<<>>} \cup {<<a>> : a \in EnclaveInfos}
  \cup {l \in EnclaveInfos \X EnclaveInfos : l[1].EnclaveCID # l[2].EnclaveCID}

CliRuns ==
  {[threw |-> TRUE, json |-> None], [threw |-> FALSE, json |-> None]}
  \cup {[threw |-> FALSE, json |-> Some(l)] : l \in CliLists}

\* getEnclaveStates(): the parsed list, or [] when execSync or JSON.parse threw
GetEnclaveStates(cli) == IF cli.threw \/ cli.json = None THEN <<>> ELSE Get(cli.json)

\* A probe that calls an enclave healthy as soon as the CLI lists its CID
IsRunningAnyState(states, k) == k # 0

\* state?.State === 'RUNNING', for the index of the entry found (0: none)
IsRunning(states, k) == k # 0 /\ states[k].State = "RUNNING"

\* checkHealth()
CheckHealth(cli, now) ==
  LET states == GetEnclaveStates(cli)
      find(cid) == LET hits == {k \in 1..Len(states) : states[k].EnclaveCID = cid}
                   IN  IF hits = {} THEN 0 ELSE CHOOSE k \in hits : \A j \in hits : k <= j
      enclaves == [r \in 1..Len(ROUTES) |->
                     [cid |-> ROUTES[r].cid,
                      hosts |-> ROUTES[r].hosts,
                      state |-> IF find(ROUTES[r].cid) = 0 THEN "NOT_FOUND"
                                ELSE states[find(ROUTES[r].cid)].State,
                      healthy |-> IsRunning(states, find(ROUTES[r].cid))]]
  IN  [healthy |-> \A r \in 1..Len(ROUTES) : enclaves[r].healthy,
       enclaves |-> enclaves,
       timestamp |-> now]

\* app.get('/health'): res.status(status.healthy ? 200 : 503).json(status)
GetHealth ==
  /\ \E cli \in CliRuns, now \in Timestamps :
       LET status == CheckHealth(cli, now)
       IN  health' = Some([cli |-> cli,
                           answer |-> HttpAnswer(IF status.healthy THEN 200 ELSE 503, status)])
  /\ UNCHANGED <<calls, procs, backlog, serving, loopVars, frameVars, fetchVars, codec, unitVars>>

HealthSpecInit == Init /\ service = "vies"

HealthSpec == HealthSpecInit /\ [][GetHealth]_vars

\* ------------------------------------------------------------------------
\* One outbound fetch, event by event (proxyFetch, proxyFetchPlain over a
\* VsockDuplex). The enclave has one thread: it runs the event loop, and
\* vsock.read is a blocking call made on it. Time is followed against the
\* fetch's timeoutMs (25 s): under it, at it, over it.
\* ------------------------------------------------------------------------
HostHeader(h) == h[CHOOSE i \in 1..Len(h) : h[i][1] = "Host"][2]

TimeoutMessage(f) ==
  (IF f.tls THEN "proxyFetch" ELSE "proxyFetchPlain")
  \o " timeout after 25000ms to " \o HostHeader(f.headers) \o f.path

StreamErrorMessage(f, msg) ==
  (IF f.tls THEN "TLS error to " ELSE "Plain HTTP error to ")
  \o HostHeader(f.headers) \o ": " \o msg

\* resolve / reject: the first call settles the promise, later ones do nothing
SettleWith(o) == IF promise = None THEN Some(o) ELSE promise

\* clearTimeout(timer)
ClearTimeout == IF timer = "armed" THEN "cleared" ELSE timer

\* The handler's `await proxyFetch(...)` has a settled promise to continue on
ContinuationPending ==
  /\ pc = "fetch"
  /\ Len(fetches) = 1
  /\ LastFetch.state = "pending"
  /\ promise # None

\* The event loop can take a timer or setImmediate callback: the thread is not
\* inside a blocking call and the main flow is parked on a real wait (the
\* fetch's promise, or sleep(100))
LoopFree ==
  /\ thread = "loop"
  /\ pc \in {"fetch", "sleep"}
  /\ ~ContinuationPending

\* The handler of the first connection that fetches is the one followed
ProxyHandle ==
  /\ timer = "unset"
  /\ (GenericStart \/ SicaeStart)

\* The promise executor of proxyFetch / proxyFetchPlain: setTimeout, then
\* VsockStream.connect and new VsockDuplex; tls.connect (the request is written
\* once the handshake is done) or duplex.write(httpReq); the listeners, which
\* start the duplex reading (_read: reading = true, setImmediate(poll)). A throw
\* of connect is caught: clearTimeout, reject.
ProxyBegin ==
  /\ pc = "fetch"
  /\ timer = "unset"
  /\ LastFetch.state = "pending"
  /\ \E connected \in BOOLEAN :
       IF connected
       THEN /\ timer' = "armed"
            /\ duplex' = [state |-> "open", reading |-> TRUE, poll |-> TRUE]
            /\ tlsSocket' = IF LastFetch.tls THEN "handshake" ELSE "none"
            /\ httpReq' = IF LastFetch.tls THEN "unwritten" ELSE "written"
            /\ promise' = promise
       ELSE /\ timer' = "cleared"
            /\ promise' = SettleWith(Rejected("vsock connect failed"))
            /\ UNCHANGED <<duplex, tlsSocket, httpReq>>
  /\ UNCHANGED <<clock, thread, fchunks, vsockRaw, late, loopVars, frameVars, parentVars, codec, unitVars>>

\* The proxy's side of the socket: a chunk of the upstream's answer arrives
UpstreamSend ==
  /\ duplex.state = "open"
  /\ ~vsockRaw.eof
  /\ vsockRaw.sent < MaxChunks
  /\ vsockRaw' = [vsockRaw EXCEPT !.avail = @ + 1, !.sent = @ + 1]
  /\ UNCHANGED <<clock, thread, timer, promise, duplex, tlsSocket, httpReq, fchunks, late,
                 loopVars, frameVars, parentVars, codec, unitVars>>

\* The proxy closes its side
UpstreamEnd ==
  /\ duplex.state = "open"
  /\ ~vsockRaw.eof
  /\ vsockRaw' = [vsockRaw EXCEPT !.eof = TRUE]
  /\ UNCHANGED <<clock, thread, timer, promise, duplex, tlsSocket, httpReq, fchunks, late,
                 loopVars, frameVars, parentVars, codec, unitVars>>

\* Time passes. A timer that is due on a free loop runs before more time does.
Tick ==
  /\ timer # "unset"
  /\ clock # ">25s"
  /\ ~(timer = "armed" /\ clock = "25s" /\ LoopFree)
  /\ clock' = IF clock = "<25s" THEN "25s" ELSE ">25s"
  /\ UNCHANGED <<thread, timer, promise, duplex, tlsSocket, httpReq, fchunks, vsockRaw, late,
                 loopVars, frameVars, parentVars, codec, unitVars>>

\* A timer callback that also destroys the stream
TimerFireDestroy ==
  /\ timer = "armed"
  /\ clock # "<25s"
  /\ LoopFree
  /\ timer' = "fired"
  /\ promise' = SettleWith(Rejected(TimeoutMessage(fetches[1])))
  /\ duplex' = [state |-> "closed", reading |-> FALSE, poll |-> FALSE]
  /\ UNCHANGED <<clock, thread, tlsSocket, httpReq, fchunks, vsockRaw, late,
                 loopVars, frameVars, parentVars, codec, unitVars>>

\* The setTimeout callback: reject(new Error('... timeout after ...')), and
\* nothing else
TimerFire ==
  /\ timer = "armed"
  /\ clock # "<25s"
  /\ LoopFree
  /\ timer' = "fired"
  /\ promise' = SettleWith(Rejected(TimeoutMessage(fetches[1])))
  /\ UNCHANGED <<clock, thread, duplex, tlsSocket, httpReq, fchunks, vsockRaw, late,
                 loopVars, frameVars, parentVars, codec, unitVars>>

\* poll, queued by setImmediate, calls this.vsock.read: the thread is inside
\* the blocking libc read until the socket has bytes or is at end of stream
VsockRead ==
  /\ duplex.poll
  /\ LoopFree
  /\ thread' = "read"
  /\ duplex' = [duplex EXCEPT !.poll = FALSE]
  /\ late' = IF timer = "fired" THEN late \cup {"read"} ELSE late
  /\ UNCHANGED <<clock, timer, promise, tlsSocket, httpReq, fchunks, vsockRaw,
                 loopVars, frameVars, parentVars, codec, unitVars>>

\* vsock.read returns a chunk: push(chunk), and setImmediate(poll) again. A
\* chunk of the handshake finishes it, and the secureConnect callback writes
\* the request; any other chunk goes to the 'data' listener.
ReadData ==
  /\ thread = "read"
  /\ vsockRaw.avail > 0
  /\ thread' = "loop"
  /\ vsockRaw' = [vsockRaw EXCEPT !.avail = @ - 1]
  /\ duplex' = [duplex EXCEPT !.poll = TRUE]
  /\ IF tlsSocket = "handshake"
     THEN /\ tlsSocket' = "secure"
          /\ httpReq' = "written"
          /\ late' = IF timer = "fired" THEN late \cup {"write"} ELSE late
          /\ fchunks' = fchunks
     ELSE /\ fchunks' = fchunks + 1
          /\ UNCHANGED <<tlsSocket, httpReq, late>>
  /\ UNCHANGED <<clock, timer, promise, loopVars, frameVars, parentVars, codec, unitVars>>

\* vsock.read returns nothing: push(null), reading = false, and the stream,
\* ended on both sides, is destroyed (vsock.close()). The 'end' listener clears
\* the timer and resolves with the parsed response, or rejects when
\* parseHttpResponse throws; an end during the handshake is a TLS error.
ReadEof ==
  /\ thread = "read"
  /\ vsockRaw.avail = 0
  /\ vsockRaw.eof
  /\ thread' = "loop"
  /\ duplex' = [state |-> "closed", reading |-> FALSE, poll |-> FALSE]
  /\ timer' = ClearTimeout
  /\ \E parsed \in BOOLEAN :
       promise' =
         IF tlsSocket = "handshake"
         THEN SettleWith(Rejected(StreamErrorMessage(fetches[1], "socket hang up")))
         ELSE IF fchunks = 0 \/ ~parsed
         THEN SettleWith(Rejected("Malformed HTTP response: no header/body separator"))
         ELSE SettleWith(Resolved(fchunks))
  /\ UNCHANGED <<clock, tlsSocket, httpReq, fchunks, vsockRaw, late,
                 loopVars, frameVars, parentVars, codec, unitVars>>

\* vsock.read throws: this.destroy(err) closes the socket, and the 'error'
\* listener clears the timer and rejects
ReadThrow ==
  /\ thread = "read"
  /\ thread' = "loop"
  /\ duplex' = [state |-> "closed", reading |-> TRUE, poll |-> FALSE]
  /\ timer' = ClearTimeout
  /\ promise' = SettleWith(Rejected(StreamErrorMessage(fetches[1], "read ECONNRESET")))
  /\ UNCHANGED <<clock, tlsSocket, httpReq, fchunks, vsockRaw, late,
                 loopVars, frameVars, parentVars, codec, unitVars>>

\* `await proxyFetch(...)` throws: the handler's catch returns its 502
ProxyRejected ==
  /\ ContinuationPending
  /\ thread = "loop"
  /\ ~Get(promise).ok
  /\ fetches' = SetLastFetch("failed")
  /\ Return(HandlerCatch(Get(promise).error))
  /\ log' = Append(log, "fetch-end")
  /\ UNCHANGED <<connVars, req, work, attArgs, draft, att, nsmCalls, err, sent, frameVars,
                 parentVars, fetchVars, codec, unitVars>>

\* `await proxyFetch(...)` returns the response: the handler goes on
ProxyResolved ==
  /\ ContinuationPending
  /\ thread = "loop"
  /\ Get(promise).ok
  /\ (GenericFetchDone \/ SicaeGetDone)

ProxyNext ==
  \/ AcceptOk
  \/ AcceptFail
  \/ SleepDone /\ thread = "loop"
  \/ ReadRequestOk
  \/ ReadRequestFail
  \/ ProxyHandle
  \/ ProxyBegin
  \/ UpstreamSend
  \/ UpstreamEnd
  \/ Tick
  \/ TimerFire
  \/ VsockRead
  \/ ReadData
  \/ ReadEof
  \/ ReadThrow
  \/ ProxyRejected
  \/ ProxyResolved
  \/ AttestNonce
  \/ NsmAttest
  \/ WriteReply
  \/ ErrorReply
  \/ Close

ProxySpecInit == Init /\ service \in {"sicae", "sicae-custom"}

ProxySpec == ProxySpecInit /\ [][ProxyNext]_vars

\* ------------------------------------------------------------------------
\* encodeFieldElements, byte by byte
\* ------------------------------------------------------------------------
\* A Buffer is a sequence of bytes. A bigint is a sign and a magnitude, the
\* magnitude being its big-endian bytes without a leading zero byte (0n is
\* <<>>). A string is the sequence of its code points.

\* The fields of the schemas encoded
MaxFields == 2

\* Buffer.alloc(n)
Zeros(n) == [i \in 1..n |-> 0]

\* The magnitude that a run of big-endian bytes denotes: BigInt('0x' + hex)
RECURSIVE StripZeros(_)
StripZeros(b) == IF b # <<>> /\ Head(b) = 0 THEN StripZeros(Tail(b)) ELSE b

\* a < b on magnitudes
Less(a, b) ==
  \/ Len(a) < Len(b)
  \/ /\ Len(a) = Len(b)
     /\ \E i \in 1..Len(a) : a[i] < b[i] /\ \A j \in 1..(i - 1) : a[j] = b[j]

\* a - b on magnitudes, for a >= b
Minus(a, b) ==
  LET n == Len(a)
      bb == Zeros(n - Len(b)) \o b
      borrow[i \in 0..n] ==
        IF i = 0 THEN 0
        ELSE IF a[n - i + 1] - bb[n - i + 1] - borrow[i - 1] < 0 THEN 1 ELSE 0
  IN  StripZeros([j \in 1..n |-> (a[j] - bb[j] - borrow[n - j] + 256) % 256])

\* a % m on magnitudes
RECURSIVE Mod(_, _)
Mod(a, m) == IF Less(a, m) THEN a ELSE Mod(Minus(a, m), m)

\* 21888242871839275222246405745257275088548364400416034343698204186575808495617n
BN254_MODULUS ==
  <<48, 100, 78, 114, 225, 49, 160, 41, 184, 80, 69, 182, 129, 129, 88, 93, 40, 51, 232,
    72, 121, 185, 112, 145, 67, 225, 245, 147, 240, 0, 0, 1>>

\* BN254_MODULUS - 1n and BN254_MODULUS + 1n
MODULUS_MINUS_ONE ==
  <<48, 100, 78, 114, 225, 49, 160, 41, 184, 80, 69, 182, 129, 129, 88, 93, 40, 51, 232,
    72, 121, 185, 112, 145, 67, 225, 245, 147, 240, 0, 0, 0>>

MODULUS_PLUS_ONE ==
  <<48, 100, 78, 114, 225, 49, 160, 41, 184, 80, 69, 182, 129, 129, 88, 93, 40, 51, 232,
    72, 121, 185, 112, 145, 67, 225, 245, 147, 240, 0, 0, 2>>

\* 2^256 - 1 and 2^256
MAX_UINT256 == [i \in 1..32 |-> 255]

TWO_POW_256 == <<1>> \o Zeros(32)

\* Buffer.from(s, 'utf8'): the UTF-8 bytes of a string
RECURSIVE Utf8(_)
Utf8(s) ==
  IF s = <<>> THEN <<>>
  ELSE LET c == Head(s)
           bytes ==
             IF c < 128 THEN <<c>>
             ELSE IF c < 2048 THEN <<192 + (c \div 64), 128 + (c % 64)>>
             ELSE IF c < 65536
               THEN <<224 + (c \div 4096), 128 + ((c \div 64) % 64), 128 + (c % 64)>>
             ELSE <<240 + (c \div 262144), 128 + ((c \div 4096) % 64),
                    128 + ((c \div 64) % 64), 128 + (c % 64)>>
       IN  bytes \o Utf8(Tail(s))

\* buf.toString('utf8'): the string of a run of UTF-8 bytes; a byte that
\* starts no sequence decodes to U+FFFD
RECURSIVE Utf8Decode(_)
Utf8Decode(b) ==
  IF b = <<>> THEN <<>>
  ELSE LET h == Head(b)
           n == IF h < 128 THEN 1
                ELSE IF h >= 192 /\ h < 224 /\ Len(b) >= 2 THEN 2
                ELSE IF h >= 224 /\ h < 240 /\ Len(b) >= 3 THEN 3
                ELSE IF h >= 240 /\ h < 248 /\ Len(b) >= 4 THEN 4
                ELSE 0
           c == CASE n = 1 -> h
                  [] n = 2 -> (h - 192) * 64 + (b[2] - 128)
                  [] n = 3 -> (h - 224) * 4096 + (b[2] - 128) * 64 + (b[3] - 128)
                  [] n = 4 -> (h - 240) * 262144 + (b[2] - 128) * 4096
                              + (b[3] - 128) * 64 + (b[4] - 128)
                  [] OTHER -> 65533
       IN  <<c>> \o Utf8Decode(SubSeq(b, (IF n = 0 THEN 1 ELSE n) + 1, Len(b)))

\* n copies of the code point c
Repeat(c, n) == [i \in 1..n |-> c]

\* The strings encoded
TEXT_PT == <<80, 84>>                  \* "PT"
TEXT_VAT == <<53, 48, 55, 49, 55, 50, 50, 51, 48>>   \* "507172230"
TEXT_31_BYTES == Repeat(122, 31)         \* "zzz...z", 31 characters, 31 bytes
TEXT_32_BYTES == Repeat(97, 32)          \* "aaa...a", 32 characters, 32 bytes
TEXT_16_CHARS_31_BYTES == Repeat(233, 15) \o <<97>>   \* fifteen "é" and "a"
TEXT_16_CHARS_32_BYTES == Repeat(233, 16)             \* sixteen "é"
TEXT_EURO == <<8364>>                    \* "€", three bytes
TEXT_EMOJI == <<128512>>                 \* U+1F600, four bytes
TEXT_NUL == <<0>>                        \* "\u0000"
TEXT_NUL_A == <<0, 65>>                  \* "\u0000A"
TEXT_A_NUL == <<65, 0>>                  \* "A\u0000"

TEXT_RUA_DO_EXEMPLO == <<82, 85, 65, 32, 68, 79, 32, 69, 88, 69, 77, 80, 76, 79, 32, 49, 50, 51>>   \* "RUA DO EXEMPLO 123"
TEXT_LISBOA == <<76, 73, 83, 66, 79, 65>>   \* "LISBOA"
TEXT_ONE == <<49>>   \* "1"
TEXT_TYTLE_LDA == <<84, 89, 84, 76, 69, 32, 76, 68, 65>>   \* "TYTLE LDA"
TEXT_LETTER_A == <<97>>   \* "a"
TEXT_BAR == <<98, 97, 114>>   \* "bar"

\* crypto.createHash('sha256').update(s, 'utf8').digest(): the digests of the
\* strings hashed; the six lie in the six ranges [k * p, (k + 1) * p), k = 0..5
Sha256(s) ==
  CASE s = TEXT_RUA_DO_EXEMPLO ->
      <<46, 240, 57, 203, 177, 71, 253, 125, 223, 77, 147, 54, 125, 35, 16, 148, 225, 139,
        231, 201, 49, 156, 152, 176, 154, 255, 243, 204, 2, 74, 178, 179>>
    [] s = TEXT_LISBOA ->
      <<60, 202, 235, 0, 235, 119, 93, 183, 105, 94, 109, 27, 33, 16, 254, 87, 133, 72, 53,
        249, 123, 230, 181, 23, 48, 122, 29, 218, 143, 219, 118, 228>>
    [] s = TEXT_ONE ->
      <<107, 134, 178, 115, 255, 52, 252, 225, 157, 107, 128, 78, 255, 90, 63, 87, 71, 173,
        164, 234, 162, 47, 29, 73, 192, 30, 82, 221, 183, 135, 91, 75>>
    [] s = TEXT_TYTLE_LDA ->
      <<164, 141, 159, 79, 26, 255, 193, 28, 92, 1, 4, 158, 5, 205, 92, 191, 169, 105, 9, 32,
        188, 46, 29, 179, 95, 115, 129, 21, 65, 44, 113, 178>>
    [] s = TEXT_LETTER_A ->
      <<202, 151, 129, 18, 202, 27, 189, 202, 250, 194, 49, 179, 154, 35, 220, 77, 167, 134,
        239, 248, 20, 124, 78, 114, 185, 128, 119, 133, 175, 238, 72, 187>>
    [] s = TEXT_BAR ->
      <<252, 222, 43, 46, 219, 165, 107, 244, 8, 96, 31, 183, 33, 254, 155, 92, 51, 141, 16,
        238, 66, 158, 160, 79, 174, 85, 17, 182, 143, 191, 143, 185>>

\* The values of a record: null, a key that is missing (undefined), a string,
\* an integer (a number or a bigint) and a number that is no integer
JsNull == [type |-> "null", s |-> <<>>, neg |-> FALSE, mag |-> <<>>]

JsUndefined == [type |-> "undefined", s |-> <<>>, neg |-> FALSE, mag |-> <<>>]

JsString(s) == [type |-> "string", s |-> s, neg |-> FALSE, mag |-> <<>>]

JsInteger(neg, mag) == [type |-> "integer", s |-> <<>>, neg |-> neg, mag |-> mag]

JsFraction == [type |-> "fraction", s |-> <<>>, neg |-> FALSE, mag |-> <<1>>]

\* The values given to the fields of each encoding
Absent == {JsNull, JsUndefined, JsString(<<>>)}

ShortStringInputs ==
  Absent \cup
  { JsString(s) :
      s \in {TEXT_PT, TEXT_VAT, TEXT_31_BYTES, TEXT_32_BYTES, TEXT_16_CHARS_31_BYTES,
             TEXT_16_CHARS_32_BYTES, TEXT_EURO, TEXT_EMOJI, TEXT_NUL, TEXT_NUL_A,
             TEXT_A_NUL} }

Sha256Inputs ==
  Absent \cup
  { JsString(s) :
      s \in {TEXT_RUA_DO_EXEMPLO, TEXT_LISBOA, TEXT_ONE, TEXT_TYTLE_LDA, TEXT_LETTER_A,
             TEXT_BAR} }

UintInputs ==
  Absent \cup
  { JsInteger(FALSE, m) :
      m \in {<<>>, <<1>>, <<1, 0>>, MODULUS_MINUS_ONE, BN254_MODULUS, MODULUS_PLUS_ONE,
             MAX_UINT256, TWO_POW_256} }
  \cup {JsInteger(TRUE, <<1>>), JsFraction}

Inputs(encoding) ==
  CASE encoding = "shortString" -> ShortStringInputs
    [] encoding = "sha256" -> Sha256Inputs
    [] encoding = "uint" -> UintInputs

\* The schemas encoded: the encodings of up to MaxFields fields
Schemas == UNION { [1..n -> {"shortString", "sha256", "uint"}] : n \in 1..MaxFields }

\* The records of a schema, a value for each field in the schema's order
Records(schema) ==
  { v \in [1..Len(schema) -> ShortStringInputs \cup Sha256Inputs \cup UintInputs] :
      \A i \in 1..Len(schema) : v[i] \in Inputs(schema[i]) }

\* What a function of the codec gives: a buffer, or the Error it throws
Buffer(b) == [ok |-> TRUE, bytes |-> b, error |-> ""]

Throws(e) == [ok |-> FALSE, bytes |-> <<>>, error |-> e]

\* bigintToBytes32: val.toString(16).padStart(64, '0') as bytes
BigintToBytes32(val) == IF Len(val) >= 32 THEN val ELSE Zeros(32 - Len(val)) \o val

\* A sha256ToFe that leaves the reduction out
Sha256ToFeUnreduced(s) == Buffer(BigintToBytes32(StripZeros(Sha256(s))))

\* shortStringToFe
ShortStringToFe(s) ==
  LET bytes == Utf8(s)
  IN  IF Len(bytes) > 31 THEN Throws("shortString exceeds 31 bytes")
      ELSE Buffer(BigintToBytes32(StripZeros(bytes)))

\* sha256ToFe
Sha256ToFe(s) == Buffer(BigintToBytes32(Mod(StripZeros(Sha256(s)), BN254_MODULUS)))

\* uintToFe; BigInt(n) throws a RangeError for a number that is no integer
UintToFe(n) ==
  IF n.type = "fraction" THEN Throws("cannot be converted to a BigInt")
  ELSE IF (n.neg /\ n.mag # <<>>) \/ ~Less(n.mag, BN254_MODULUS)
    THEN Throws("uint out of BN254 range")
  ELSE Buffer(BigintToBytes32(n.mag))

\* encodeField
EncodeField(encoding, value) ==
  IF value \in Absent THEN Buffer(Zeros(32))
  ELSE CASE encoding = "shortString" -> ShortStringToFe(value.s)
         [] encoding = "sha256" -> Sha256ToFe(value.s)
         [] encoding = "uint" -> UintToFe(value)
         [] OTHER -> Throws("Unknown encoding")

\* The loop of encodeFieldElements from field i on: the buffers pushed, or
\* the Error of the first field that throws
RECURSIVE EncodeFrom(_, _, _, _)
EncodeFrom(schema, values, i, buffers) ==
  IF i > Len(schema) THEN [ok |-> TRUE, buffers |-> buffers, error |-> ""]
  ELSE LET value == IF values[i] = JsUndefined THEN JsNull ELSE values[i]
           slot == EncodeField(schema[i], value)
       IN  IF slot.ok THEN EncodeFrom(schema, values, i + 1, Append(buffers, slot.bytes))
           ELSE [ok |-> FALSE, buffers |-> buffers, error |-> slot.error]

\* Buffer.concat
RECURSIVE Concat(_)
Concat(buffers) == IF buffers = <<>> THEN <<>> ELSE Head(buffers) \o Concat(Tail(buffers))

\* recoverShortString of the codec's tests: skip the leading zero bytes and
\* read the rest as UTF-8
RecoverShortString(buf) == Utf8Decode(StripZeros(buf))

\* encodeFieldElements(schema, values) returns its buffer
EncodeReturns ==
  /\ codec.state = "called"
  /\ LET r == EncodeFrom(codec.schema, codec.values, 1, <<>>)
     IN  /\ r.ok
         /\ codec' = [codec EXCEPT !.state = "returned", !.buffers = r.buffers,
                                   !.out = Concat(r.buffers)]
  /\ UNCHANGED <<loopVars, frameVars, parentVars, fetchVars, unitVars>>

\* encodeFieldElements(schema, values) throws
EncodeThrows ==
  /\ codec.state = "called"
  /\ LET r == EncodeFrom(codec.schema, codec.values, 1, <<>>)
     IN  /\ ~r.ok
         /\ codec' = [codec EXCEPT !.state = "threw", !.buffers = r.buffers,
                                   !.error = r.error]
  /\ UNCHANGED <<loopVars, frameVars, parentVars, fetchVars, unitVars>>

CodecNext == EncodeReturns \/ EncodeThrows

CodecSpecInit ==
  /\ LoopInit /\ service = "vies" /\ FrameInit /\ ParentInit /\ FetchInit /\ UnitInit
  /\ \E schema \in Schemas :
       \E values \in Records(schema) :
         codec = [schema |-> schema, values |-> values, buffers |-> <<>>, out |-> <<>>,
                  error |-> "", state |-> "called"]

CodecSpec == CodecSpecInit /\ [][CodecNext]_vars

LoopNext ==
  \/ AcceptOk
  \/ AcceptFail
  \/ SleepDone
  \/ ReadRequestOk
  \/ ReadRequestFail
  \/ GenericStart
  \/ GenericFetchDone
  \/ ViesStart
  \/ ViesFetchDone
  \/ SicaeStart
  \/ SicaeGetDone
  \/ SicaePostDone
  \/ StripeStart
  \/ StripeFetchDone
  \/ FetchFail
  \/ AttestNonce
  \/ NsmAttest
  \/ WriteReply
  \/ ErrorReply
  \/ Close

\* handleConnection of the VIES image, the NSM answering with any of NsmAnswers
AttestNext ==
  \/ AcceptOk
  \/ AcceptFail
  \/ SleepDone
  \/ ReadRequestOk
  \/ ReadRequestFail
  \/ ViesStart
  \/ ViesFetchDone
  \/ FetchFail
  \/ AttestNonce
  \/ NsmAttestAny
  \/ WriteReply
  \/ ErrorReply
  \/ Close

AttestSpecInit == Init /\ service = "vies"

AttestSpec == AttestSpecInit /\ [][AttestNext]_vars

Next == LoopNext

Spec == Init /\ [][Next]_vars

\* The steps of handleConnection: each is the return of a blocking call
\* (stream read, fetch with its 25 s timer, NSM ioctl, stream write, close)
ServeNext ==
  \/ ReadRequestOk
  \/ ReadRequestFail
  \/ GenericStart
  \/ GenericFetchDone
  \/ ViesStart
  \/ ViesFetchDone
  \/ SicaeStart
  \/ SicaeGetDone
  \/ SicaePostDone
  \/ StripeStart
  \/ StripeFetchDone
  \/ FetchFail
  \/ AttestNonce
  \/ NsmAttest
  \/ WriteReply
  \/ ErrorReply
  \/ Close

\* Every blocking call of handleConnection returns or throws
FairSpec == Spec /\ WF_vars(ServeNext) /\ WF_vars(SleepDone)

\* ========================================================================
\* Properties
\* ========================================================================
HeaderValue(h, k) == (CHOOSE i \in 1..Len(h) : h[i][1] = k)

Serving == IsSome(req) /\ ~Request.isNull

\* the request at hand names, in a URL that parses, a host outside the allowlist
HostOutsideAllowlist ==
  /\ Serving
  /\ ParseUrl(Request.url).ok
  /\ ParseUrl(Request.url).hostname \notin AllowedHostnames(service)

\* the replies of this invocation: the one the handler returned and every
\* frame handed to writeMessage
Replies ==
  (IF IsSome(resp) THEN {Get(resp)} ELSE {}) \cup {sent[i].frame : i \in 1..Len(sent)}

\* C1: under the generic request handler, a request whose URL hostname equals
\* no allowlist entry's hostname is answered success=false, status 403, with
\* an error and no attestation, and causes no outbound fetch and no NSM call.
C1_HostNotAllowed ==
  (Handler = "generic" /\ HostOutsideAllowlist) =>
    /\ fetches = <<>>
    /\ nsmCalls = <<>>
    /\ attArgs = None /\ att = None
    /\ pc \notin {"fetch", "attest", "nsm"}
    /\ pc \in {"write", "catch", "close", "accept", "sleep"} =>
         /\ IsSome(resp)
         /\ ~Get(resp).success
         /\ Get(resp).status = 403
         /\ IsSome(Get(resp).error)
         /\ Get(resp).attestation = None

\* the 403 reply went out whole for a host that only extends an allowed name
C1_Witness ==
  /\ Handler = "generic"
  /\ HostOutsideAllowlist
  /\ Request.url = "https://ec.europa.eu.evil.example/a"
  /\ pc = "close"
  /\ Get(resp).status = 403
  /\ sent = <<[frame |-> Get(resp), bytes |-> "all"]>>

C3_ViesRejectsStripeUrl ==
  (service = "vies" /\ Serving /\ Request.url = "https://api.stripe.com/v1/charges"
   /\ IsSome(resp)) =>
    /\ Get(resp).status = 403
    /\ ~Get(resp).success
    /\ Get(resp).attestation = None

\* C4: in every reply, of any handler or of the error path of the loop,
\* success=false goes with an error and no attestation, success=true with an
\* attestation.
C4_ReplyShape ==
  \A r \in Replies :
    /\ ~r.success => (r.attestation = None /\ IsSome(r.error))
    /\ r.success => IsSome(r.attestation)

\* replies of both kinds were produced: a success reply of a handler and the
\* status-500 reply of the loop after the write of that reply failed
C4_Witness ==
  /\ Len(sent) = 2
  /\ sent[1].frame.success
  /\ ~sent[2].frame.success
  /\ sent[2].frame.status = 500

\* C5: the attestation of a successful reply is bound to it: responseHash is
\* the SHA-256 of the reply's rawBody, nonce is the SHA-256 of responseHash,
\* apiEndpoint and the decimal timestamp of the document itself, and the nonce
\* handed to the NSM is the nonce of the document.
C5_AttestationBoundToReply ==
  \A r \in Replies :
    r.success =>
      LET a == Get(r.attestation)
      IN  /\ a.responseHash = Sha256Hex(r.rawBody)
          /\ a.nonce = Sha256Hex(a.responseHash \o a.apiEndpoint \o Decimal(a.timestamp))
          /\ nsmCalls # <<>>
          /\ nsmCalls[Len(nsmCalls)].nonce = HexToBytes(a.nonce)
          /\ Len(nsmCalls) = 1

\* a custom handler's success reply, whose rawBody is the encoded block and
\* not the upstream body, was written
C5_Witness ==
  /\ Handler = "sicae"
  /\ pc = "close"
  /\ IsSome(resp)
  /\ Get(resp).success
  /\ Get(Get(resp).attestation).timestamp = 1700000000
  /\ sent = <<[frame |-> Get(resp), bytes |-> "all"]>>

RECURSIVE Count(_, _)
Count(events, e) ==
  IF events = <<>> THEN 0
  ELSE (IF Head(events) = e THEN 1 ELSE 0) + Count(Tail(events), e)

Before(i) == SubSeq(log, 1, i - 1)

Returned == pc \in {"accept", "sleep"} /\ cur # 0

\* C6: the accept loop serves one connection at a time end to end: at most
\* one accepted connection is open at any moment, and when accept() is
\* called again the previous connection is closed and handleConnection has
\* run to its end on it: the request was read and handled and the reply
\* written whole, or an exception was caught on the way.
C6_OneConnectionAtATime ==
  /\ Cardinality(OpenConns) <= 1
  /\ OpenConns \subseteq {cur}
  /\ pc \in {"accept", "sleep"} => OpenConns = {}
  /\ pc \notin {"accept", "sleep"} => OpenConns = {cur}
  /\ Returned =>
       /\ conn[cur].state = "closed"
       /\ \/ IsSome(err)
          \/ /\ Serving
             /\ IsSome(resp)
             /\ sent = <<[frame |-> Get(resp), bytes |-> "all"]>>
             /\ Count(log, "recv") = 1 /\ Count(log, "write") = 1

\* the second connection is being served after the first was served and closed
C6_Witness ==
  /\ cur = 2
  /\ pc = "fetch"
  /\ conn[1].state = "closed"
  /\ conn[2].state = "open"

\* C7: the steps of one invocation are sequential: the request is received
\* before a fetch starts, every fetch has ended before the nonce is computed,
\* the nonce is computed before the NSM is asked, and the NSM has answered
\* before the first byte of the reply is written.
C7_StepsInOrder ==
  /\ \A i \in 1..Len(log) :
       /\ log[i] = "fetch-start" =>
            /\ Count(Before(i), "recv") = 1
            /\ Count(Before(i), "fetch-start") = Count(Before(i), "fetch-end")
            /\ Count(Before(i), "nonce") = 0
       /\ log[i] = "nonce" =>
            /\ Count(Before(i), "fetch-end") >= 1
            /\ Count(Before(i), "fetch-start") = Count(Before(i), "fetch-end")
       /\ log[i] = "nsm-request" => Count(Before(i), "nonce") = 1
       /\ log[i] \in {"nsm-reply", "nsm-failed"} => log[i - 1] = "nsm-request"
       /\ log[i] \in {"write", "write-failed"} =>
            /\ Count(Before(i), "write") + Count(Before(i), "write-failed") = 0
            /\ Count(Before(i), "fetch-start") = Count(Before(i), "fetch-end")
            /\ Get(resp).success => Count(Before(i), "nsm-reply") = 1
  /\ pc \in {"attest", "nsm"} =>
       (fetches # <<>> /\ \A i \in 1..Len(fetches) : fetches[i].state = "done")
  /\ sent # <<>> =>
       Count(log, "write") + Count(log, "write-failed") + Count(log, "error-write")
       + Count(log, "error-write-failed") = Len(sent)
  /\ (pc \in {"read", "handle", "fetch", "attest", "nsm", "write"}) => sent = <<>>

\* a SICAE invocation went through all the steps: two fetches, the nonce, the
\* NSM, and the write of the reply
C7_Witness ==
  log = <<"accept", "recv", "fetch-start", "fetch-end", "fetch-start", "fetch-end",
          "nonce", "nsm-request", "nsm-reply", "write">>

ClosedOnce(c) == conn[c].state = "closed" /\ conn[c].closeCalls = 1

ErrorWrites == Count(log, "error-write") + Count(log, "error-write-failed")

\* C9: when reading the request, handling it or writing the reply threw, the
\* loop makes one attempt to write {success=false, status=500, error=message}
\* on that connection, and a failure of that attempt is swallowed: the
\* connection is closed and nothing further is written.
C9_ErrorReplyAttemptedOnce ==
  /\ (Count(log, "recv-failed") + Count(log, "write-failed") > 0) => IsSome(err)
  /\ (IsSome(err) /\ pc \in {"close", "accept", "sleep"}) =>
       /\ ErrorWrites = 1
       /\ sent # <<>>
       /\ LET e == sent[Len(sent)].frame
          IN  /\ e = [success |-> FALSE, status |-> 500, headers |-> <<>>, rawBody |-> "",
                      error |-> err, attestation |-> None]
              /\ log[Len(log)] = "error-write" => sent[Len(sent)].bytes = "all"
  /\ err = None => ErrorWrites = 0
  /\ ErrorWrites <= 1
  /\ (ErrorWrites = 1) => pc \in {"close", "accept", "sleep"}

\* the request frame held JSON null, the error reply for the TypeError could
\* not be written, and the connection was closed all the same
C9_Witness ==
  /\ IsSome(req)
  /\ Request.isNull
  /\ log = <<"accept", "recv", "error-write-failed", "close">>
  /\ pc = "accept"
  /\ conn[cur].state = "closed"

\* the calls of writeMessage that put a frame on the stream, in order
RECURSIVE Framed(_)
Framed(n) ==
  IF n = 0 THEN <<>>
  ELSE Framed(n - 1) \o (IF wres[n] = "too-large" THEN <<>> ELSE <<n>>)

\* the bytes of the first i frames: for each a 4-byte header and its payload
RECURSIVE FramesLength(_, _)
FramesLength(framed, i) ==
  IF i = 0 THEN 0
  ELSE FramesLength(framed, i - 1) + 4 + PayloadLength(wmsgs[framed[i]])

\* C10: framing round trip: for every value whose serialisation is at most
\* 16 MiB and every split of the bytes into short writes and short reads,
\* the i-th readMessage of the peer returns the value of the i-th frame
\* written, having consumed exactly the 4-byte header and the L payload bytes
\* of each frame so far; a readMessage fails only when the stream ended
\* before its frame was written whole.
C10_FramingRoundTrip ==
  LET framed == Framed(Len(wmsgs))
  IN  /\ \A n \in 1..Len(wmsgs) :
           (wres[n] = "too-large") <=> (PayloadLength(wmsgs[n]) > 16777216)
      /\ \A i \in 1..Len(rgot) :
           /\ rgot[i].ok =>
                /\ i <= Len(framed)
                /\ rgot[i].value = Some(wmsgs[framed[i]])
                /\ rgot[i].consumed = FramesLength(framed, i)
           /\ ~rgot[i].ok =>
                /\ rgot[i].error = "Connection closed"
                /\ wclosed
                /\ i > Len(framed) \/ wres[framed[i]] = "io-error"
      /\ rpc = "idle" /\ Len(rgot) <= Len(framed) => rcount = FramesLength(framed, Len(rgot))

\* a 16 MiB payload and then a payload one byte over the read cap were both
\* read back, after a short write and a short read
C10_Witness ==
  /\ Len(rgot) = 2
  /\ rgot[1].ok /\ rgot[1].value = Some(Str(MAX_MESSAGE_SIZE - 2))
  /\ rgot[2].ok /\ rgot[2].value = Some(Str(READ_CHUNK - 1))
  /\ wshort > 0
  /\ rshort > 0
  /\ rcount = 16777220 + 65541

\* the frames some byte of which is on the stream or in the reader's buffer
OnStream == {wire[k].msg : k \in 1..Len(wire)} \cup {rchunks[k].msg : k \in 1..Len(rchunks)}

\* C11: writeMessage of a value whose JSON text is longer than 16 MiB throws
\* "Message too large" and leaves the stream as it was: the call adds no byte
\* to it and does not close it, and no byte of that frame ever reaches the
\* stream or the reader afterwards.
C11_OversizeWriteRefused ==
  /\ [](\A n \in 1..Len(wmsgs) :
          PayloadLength(wmsgs[n]) > MAX_MESSAGE_SIZE =>
            /\ wres[n] = "too-large"
            /\ n \notin OnStream
            /\ n = Len(wmsgs) => wpc = "idle")
  /\ [][(/\ Len(wmsgs') = Len(wmsgs) + 1
         /\ PayloadLength(wmsgs'[Len(wmsgs')]) > MAX_MESSAGE_SIZE)
        => (wire' = wire /\ wclosed' = wclosed /\ woff' = 0)]_vars

\* a frame was written, then a value of 16 MiB and one byte was refused, and
\* the stream stayed usable: the reader got the first value
C11_Witness ==
  /\ Len(wmsgs) = 2
  /\ wres = <<"done", "too-large">>
  /\ PayloadLength(wmsgs[2]) = MAX_MESSAGE_SIZE + 1
  /\ ~wclosed
  /\ Len(rgot) = 1 /\ rgot[1].ok /\ rgot[1].value = Some(wmsgs[1])

\* readMessage facing a header that announces 0 or more than 16 MiB bytes:
\* it fails with the matching error having taken the 4 header bytes of that
\* frame from the stream and nothing more
ReadMessageRejectsLength ==
  \A j \in 1..Len(rgot) :
    (j <= Len(wmsgs) /\ calls[1].pc = "idle") =>
      LET L == PayloadLength(wmsgs[j])
          upTo == FramesLength(Framed(Len(wmsgs)), j - 1) + HEADER_SIZE
      IN  /\ L = 0 => rgot[j] = ReadFailed("Empty message received", upTo)
          /\ L > MAX_MESSAGE_SIZE => rgot[j] = ReadFailed("Message too large", upTo)
          /\ (L = 0 \/ L > MAX_MESSAGE_SIZE) /\ j = Len(rgot) =>
                rchunks = <<>> /\ rcount = upTo

\* the same for the reader of sendToEnclave, unless its timer fired first
SendToEnclaveRejectsLength ==
  \A i \in CallIds :
    (procs[i].ended /\ RunsLength(procs[i].chunks) >= HEADER_SIZE
       /\ procs[i].timer # "fired") =>
      LET L == ReadUInt32BE(procs[i].chunks)
      IN  /\ L = 0 => procs[i].outcome = Some(Rejected("Empty message received"))
          /\ L > MAX_MESSAGE_SIZE =>
                /\ procs[i].outcome = Some(Rejected("Message too large"))
                /\ RunsLength(procs[i].chunks) = HEADER_SIZE

\* C12: a frame reader that gets a header with L = 0 fails with "Empty
\* message", and with L > 16 MiB fails with "Message too large", without
\* reading or buffering a payload byte, both in the enclave's readMessage and
\* in the host's reader in sendToEnclave.
C12_ReadersRejectBadLength == ReadMessageRejectsLength /\ SendToEnclaveRejectsLength

\* readMessage refused a header of 16 MiB and one byte after a frame it read,
\* and the payload it did not read is still on the stream
ReadMessageRejectsLengthWitness ==
  /\ Len(rgot) = 2
  /\ rgot[1].ok
  /\ rgot[2].error = "Message too large"
  /\ RunsLength(wire) = MAX_MESSAGE_SIZE + 1

\* the URL is one that `new URL` parses and whose hostname some route lists
Routed(url) ==
  /\ ParseUrl(url).ok
  /\ \E r \in 1..Len(ROUTES) : HostsInclude(ROUTES[r].hosts, ParseUrl(url).hostname)

\* the value of the frame that the data collected by call i starts with, if
\* that frame is there whole
FirstFrame(i) ==
  LET c == procs[i].chunks
  IN  IF c # <<>> /\ c[1].lo = 0 /\ c[1].hi = FrameLength(wmsgs[c[1].msg])
         /\ wmsgs[c[1].msg].kind = "object"
      THEN Some(wmsgs[c[1].msg].value)
      ELSE None

\* C13: POST /attest/fetch answers 400 when url or method is missing, else
\* 404 when the URL does not parse or its hostname has no route, in both
\* cases without starting a vsock connection; otherwise it sends the one
\* request frame to the CID and port of the route and answers either with the
\* enclave's reply as it came (also when success=false) or, when the
\* transport failed, with 502 and {success=false, error}.
C13_RouterOutcomes ==
  \A i \in CallIds :
    calls[i].pc # "idle" =>
      LET body == Get(calls[i].body)
          res == Get(calls[i].res)
      IN  IF Falsy(body.url) \/ Falsy(body.method)
          THEN /\ calls[i].pc = "done"
               /\ res.status = 400 /\ ~res.json.success
               /\ procs[i] = NoProc
          ELSE IF ~Routed(body.url)
          THEN /\ calls[i].pc = "done"
               /\ res.status = 404 /\ ~res.json.success
               /\ procs[i] = NoProc
          ELSE /\ procs[i].phase # "none"
               /\ \E r \in 1..Len(ROUTES) :
                    /\ HostsInclude(ROUTES[r].hosts, ParseUrl(body.url).hostname)
                    /\ procs[i].cid = ROUTES[r].cid
                    /\ procs[i].port = ROUTES[r].port
               /\ procs[i].stdin = Some(EnclaveRequestOf(i, body))
               /\ calls[i].pc = "done" =>
                    \/ /\ res.status = 200
                       /\ FirstFrame(i) = Some(res.json)
                    \/ /\ res = HttpError(502, "Enclave communication failed: "
                                               \o Get(procs[i].outcome).error)
                       /\ ~Get(procs[i].outcome).ok

\* one call got the enclave's own failure reply back as it was, and another
\* got 502 because the reply frame did not arrive whole
C13_Witness ==
  /\ calls[1].pc = "done" /\ calls[2].pc = "done"
  /\ Get(calls[1].res).status = 200
  /\ Get(calls[1].res).json = Failure(502, <<>>, "fetch failed for "
                                                   \o Get(calls[1].body).url)
  /\ Get(calls[2].res) = HttpError(502, "Enclave communication failed: Truncated response")

\* the frames some byte of which reached the socat process of call i
FramesOf(i) ==
  {procs[i].out[k].msg : k \in 1..Len(procs[i].out)}
  \cup {procs[i].chunks[k].msg : k \in 1..Len(procs[i].chunks)}

\* the connections an enclave holds: the one it serves and those waiting
Held(cid) ==
  {backlog[cid][k] : k \in 1..Len(backlog[cid])}
  \cup (IF serving[cid] = 0 THEN {} ELSE {serving[cid]})

\* C14: with several POST /attest/fetch calls in flight to one enclave, each
\* call has a connection of its own, the enclave serves one connection at a
\* time and answers it before it takes the next, and a caller that gets an
\* enclave reply gets the one handleConnection produced for its own request:
\* no frame reaches two callers, and no caller sees a frame written for
\* another.
C14_RepliesReachTheirCaller ==
  /\ \A cid \in Cids :
       /\ \A k, l \in 1..Len(backlog[cid]) :
            k # l => backlog[cid][k] # backlog[cid][l]
       /\ serving[cid] # 0 =>
            \A k \in 1..Len(backlog[cid]) : serving[cid] # backlog[cid][k]
       /\ \A i \in Held(cid) :
            procs[i].cid = cid /\ procs[i].phase = "connected" /\ procs[i].reply = None
  /\ \A i, j \in CallIds : i # j => FramesOf(i) \cap FramesOf(j) = {}
  /\ \A i \in CallIds :
       /\ \A m \in FramesOf(i) :
            /\ IsSome(procs[i].reply)
            /\ wmsgs[m].value \in {Get(procs[i].reply),
                                    Failure(500, <<>>, "vsock write failed")}
       /\ IsSome(procs[i].reply) =>
            Get(procs[i].reply) \in EnclaveReplies(Get(calls[i].request), "u" \o Digit(i))
       /\ (calls[i].pc = "done" /\ Get(calls[i].res).status = 200) =>
            /\ IsSome(procs[i].reply)
            /\ Get(calls[i].res).json \in {Get(procs[i].reply),
                                            Failure(500, <<>>, "vsock write failed")}

\* two calls to the VIES enclave were dialled before either was served, and
\* each got the attested reply made for it (the two differ)
C14_Witness ==
  /\ calls[1].pc = "done" /\ calls[2].pc = "done"
  /\ procs[1].cid = VIES_CID /\ procs[2].cid = VIES_CID
  /\ Get(calls[1].res).status = 200 /\ Get(calls[2].res).status = 200
  /\ Get(calls[1].res).json = Get(procs[1].reply)
  /\ Get(calls[2].res).json = Get(procs[2].reply)
  /\ Get(procs[1].reply).success /\ Get(procs[2].reply).success
  /\ Get(procs[1].reply) # Get(procs[2].reply)
  /\ wmsgs[1].value = Get(procs[2].reply)

\* C15: the routing table has every hostname of every service's allowlist:
\* POST /attest/fetch for a URL whose hostname is on the allowlist of vies,
\* sicae or stripe-payment finds a route (it is never answered 404).
C15_AllowlistedHostsRouted ==
  \A i \in CallIds :
    calls[i].pc # "idle" =>
      LET url == Get(calls[i].body).url
      IN  (/\ ParseUrl(url).ok
           /\ \E s \in Services : ParseUrl(url).hostname \in AllowedHostnames(s))
          => /\ IsSome(FindRoute(url))
             /\ calls[i].pc = "done" => Get(calls[i].res).status # 404

\* the CLI printed a list that has an enclave with this CID in state RUNNING
ListedRunning(cli, cid) ==
  /\ ~cli.threw
  /\ IsSome(cli.json)
  /\ \E k \in 1..Len(Get(cli.json)) :
       Get(cli.json)[k].EnclaveCID = cid /\ Get(cli.json)[k].State = "RUNNING"

\* C16: GET /health reports each configured route healthy exactly when the
\* platform CLI lists an enclave with the route's CID in state RUNNING, is
\* healthy overall exactly when every route is, and answers 200 when healthy
\* and 503 otherwise; when the CLI fails, times out or prints no JSON, every
\* route is reported NOT_FOUND and unhealthy and the answer is 503.
C16_HealthProbe ==
  IsSome(health) =>
    LET cli == Get(health).cli
        answer == Get(health).answer
        enclaves == answer.json.enclaves
    IN  /\ Len(enclaves) = Len(ROUTES)
        /\ \A r \in 1..Len(ROUTES) :
             /\ enclaves[r].cid = ROUTES[r].cid
             /\ enclaves[r].hosts = ROUTES[r].hosts
             /\ enclaves[r].healthy <=> ListedRunning(cli, ROUTES[r].cid)
        /\ answer.json.healthy <=> \A r \in 1..Len(ROUTES) : enclaves[r].healthy
        /\ answer.status = IF answer.json.healthy THEN 200 ELSE 503
        /\ (cli.threw \/ cli.json = None) =>
             /\ \A r \in 1..Len(ROUTES) :
                  enclaves[r].state = "NOT_FOUND" /\ ~enclaves[r].healthy
             /\ answer.status = 503

\* the CLI listed the SICAE enclave before the VIES enclave, both RUNNING,
\* and the answer was 200
C16_Witness ==
  /\ IsSome(health)
  /\ Get(health).cli.json =
       Some(<<[EnclaveCID |-> SICAE_CID, State |-> "RUNNING"],
              [EnclaveCID |-> VIES_CID, State |-> "RUNNING"]>>)
  /\ Get(health).answer.status = 200
  /\ Get(health).answer.json.healthy

\* the CLI call threw and the answer was 503 with both routes NOT_FOUND
HealthCliFailedWitness ==
  /\ IsSome(health)
  /\ Get(health).cli.threw
  /\ Get(health).answer.status = 503
  /\ \A r \in 1..Len(ROUTES) : Get(health).answer.json.enclaves[r].state = "NOT_FOUND"


\* ------------------------------------------------------------------------
\* The generic request handler's replies
\* ------------------------------------------------------------------------
\* createRequestHandler has returned a reply for the request in `req`
GenericReplied == Handler = "generic" /\ req # None /\ ~Request.isNull /\ resp # None

\* its proxyFetch resolved with an upstream response
UpstreamAnswered == fetches # <<>> /\ LastFetch.response # None

\* attest returned a document (requestNsmAttestation did not throw)
Attested == att # None /\ Get(att).nsmDocument # ""

\* C17: in the generic request handler, once proxyFetch has resolved with a
\* response of whatever status and attest has returned, the reply is
\* success = true with the upstream's status, headers and body, no error, and
\* an attestation whose responseHash is the hash of that body, whose
\* apiEndpoint is hostname + pathname without the query string, whose
\* apiMethod is the request's method and whose requestHash is taken over the
\* request's own url, method and headers.
C17_UpstreamResponseAttested ==
  (GenericReplied /\ UpstreamAnswered /\ Attested) =>
    LET r == Get(LastFetch.response)
        u == ParseUrl(Request.url)
        reply == Get(resp)
    IN  /\ reply.success
        /\ reply.status = r.status
        /\ reply.headers = r.headers
        /\ reply.rawBody = r.body
        /\ reply.error = None
        /\ reply.attestation # None
        /\ LET a == Get(reply.attestation) IN
             /\ a.responseHash = Sha256Hex(r.body)
             /\ a.apiEndpoint = u.hostname \o u.pathname
             /\ a.apiMethod = Request.method
             /\ a.requestHash =
                  Sha256Hex(Request.url \o "|" \o Request.method \o "|"
                            \o JsonStringify(Request.headers))
             /\ a.nonce = Sha256Hex(a.responseHash \o a.apiEndpoint \o Decimal(a.timestamp))

\* A 404 from upstream for a url with a query string, attested and written
\* back whole to the caller
C17_Witness ==
  /\ GenericReplied /\ UpstreamAnswered /\ Attested
  /\ Get(LastFetch.response).status = 404
  /\ ParseUrl(Request.url).search = "?x=1"
  /\ Request.headers # <<>>
  /\ Get(resp).success /\ Get(resp).status = 404
  /\ \E k \in 1..Len(sent) : sent[k].frame = Get(resp) /\ sent[k].bytes = "all"

\* The same for an upstream 500
UpstreamServerErrorWitness ==
  /\ GenericReplied /\ UpstreamAnswered /\ Attested
  /\ Get(LastFetch.response).status = 500
  /\ Get(resp).success /\ Get(resp).status = 500 /\ Get(resp).rawBody = SERVER_ERROR


\* new URL(request.url) threw, or the awaited proxyFetch rejected
FailedBeforeResponse ==
  \/ ~ParseUrl(Request.url).ok
  \/ fetches # <<>> /\ LastFetch.state = "failed"

\* C18: in the generic request handler, when the url does not parse or the
\* fetch rejects (connect error, TLS error, malformed HTTP response, timeout)
\* the reply is success = false with status 502 and the error's message, it
\* has no attestation, no upstream response was obtained, and the NSM was
\* never called.
C18_FailureBeforeResponse ==
  (GenericReplied /\ FailedBeforeResponse) =>
    LET reply == Get(resp) IN
      /\ ~reply.success
      /\ reply.status = 502
      /\ reply.error # None
      /\ Get(reply.error) \in FetchErrors \cup {"Invalid URL"}
      /\ (Get(reply.error) = "Invalid URL") = ~ParseUrl(Request.url).ok
      /\ reply.attestation = None
      /\ reply.rawBody = ""
      /\ ~UpstreamAnswered
      /\ attArgs = None /\ att = None
      /\ nsmCalls = <<>>

\* The vsock connect to the proxy failed and the 502 reply was written back
C18_Witness ==
  /\ GenericReplied
  /\ fetches # <<>> /\ LastFetch.state = "failed"
  /\ Get(resp) = Failure(502, <<>>, "vsock connect failed")
  /\ nsmCalls = <<>>
  /\ \E k \in 1..Len(sent) : sent[k].frame = Get(resp) /\ sent[k].bytes = "all"

\* A url that does not parse: 502 without any fetch
InvalidUrlWitness ==
  /\ GenericReplied
  /\ ~ParseUrl(Request.url).ok
  /\ fetches = <<>>
  /\ Get(resp) = Failure(502, <<>>, "Invalid URL")


\* ------------------------------------------------------------------------
\* The reply after a failed NSM call
\* ------------------------------------------------------------------------
\* requestNsmAttestation was called and threw: the ioctl failed, or its
\* answer held no Attestation.document
NsmCallFailed == resp # None /\ nsmCalls # <<>> /\ att # None /\ Get(att).nsmDocument = ""

\* C19: when the NSM ioctl fails or its answer has no Attestation.document
\* after the upstream fetch succeeded, the handler's reply has status 500,
\* success = false and no attestation.
C19_NsmFailureIs500 ==
  NsmCallFailed =>
    /\ Get(resp).status = 500
    /\ ~Get(resp).success
    /\ Get(resp).attestation = None

\* What the handlers do answer then: the 502 of their outer catch, with the
\* message requestNsmAttestation threw
NsmFailureIs502 ==
  NsmCallFailed =>
    Get(resp) \in {Failure(502, <<>>, NsmErrorMessage(o)) : o \in {"ioctl-error", "no-document"}}

\* The generic handler fetched a 200, the NSM answer had no document, and
\* the 502 reply reached the caller
NsmFailureWitness ==
  /\ NsmCallFailed
  /\ Handler = "generic"
  /\ UpstreamAnswered /\ Get(LastFetch.response).status = 200
  /\ Get(resp) = Failure(502, <<>>, "NSM response missing Attestation.document")
  /\ \E k \in 1..Len(sent) : sent[k].frame = Get(resp) /\ sent[k].bytes = "all"


\* ------------------------------------------------------------------------
\* The transport of the generic handler's fetch
\* ------------------------------------------------------------------------
\* The allowlist entry the request's hostname matched
MatchedEntry == Get(FindAllowed(Config(service).hosts, ParseUrl(Request.url).hostname))

GenericFetched == Handler = "generic" /\ req # None /\ ~Request.isNull /\ fetches # <<>>

\* C20: the generic request handler's outbound fetch uses the transport of the
\* allowlist entry it matched: TLS (proxyFetch) for an entry with tls, no TLS
\* (proxyFetchPlain) for an entry declared with tls: false, and the entry's
\* proxy port either way.
C20_FetchUsesEntryTransport ==
  GenericFetched =>
    /\ LastFetch.tls = MatchedEntry.tls
    /\ LastFetch.port = MatchedEntry.vsockProxyPort

\* What the handler does: always proxyFetch, that is TLS with the hostname as
\* servername, on the matched entry's port
GenericFetchAlwaysTls ==
  GenericFetched =>
    /\ LastFetch.tls
    /\ LastFetch.servername = Some(ParseUrl(Request.url).hostname)
    /\ LastFetch.port = MatchedEntry.vsockProxyPort

\* The generic sicae image opens TLS towards www.sicae.pt, declared tls: false
PlainEntryFetchedOverTlsWitness ==
  /\ GenericFetched
  /\ service = "sicae"
  /\ ~MatchedEntry.tls
  /\ LastFetch.tls /\ LastFetch.port = 8445


\* ------------------------------------------------------------------------
\* The 25 s timeout of a fetch
\* ------------------------------------------------------------------------
FetchStarted == timer # "unset"

\* C21: for proxyFetch and proxyFetchPlain alike, once more than 25 s have
\* passed since the fetch started it has settled: it resolved in time, or it
\* failed; when the timer ended it, it failed with the timeout error and the
\* handler's reply is success = false, status 502, no attestation. This is to
\* hold whatever the upstream does, an upstream that sends nothing included.
C21_FetchSettlesWithin25s ==
  (FetchStarted /\ clock = ">25s") =>
    /\ promise # None
    /\ (timer = "fired" /\ cur = 1) =>
         /\ promise = Some(Rejected(TimeoutMessage(fetches[1])))
         /\ resp # None => /\ Get(resp) = HandlerCatch(TimeoutMessage(fetches[1]))
                           /\ nsmCalls = <<>>

\* What does hold: a timer that fires gives the 502 reply of the claim
TimeoutReplyIs502 ==
  (timer = "fired" /\ cur = 1) =>
    /\ promise = Some(Rejected(TimeoutMessage(fetches[1])))
    /\ resp # None => /\ Get(resp) = HandlerCatch(TimeoutMessage(fetches[1]))
                      /\ Get(resp).attestation = None
                      /\ nsmCalls = <<>>

\* and a fetch is unsettled past its 25 s only while the thread sits in
\* vsock.read, or has just come back from it with the timer overdue
UnsettledOnlyBehindRead ==
  (FetchStarted /\ clock = ">25s" /\ promise = None) =>
    \/ thread = "read"
    \/ timer = "armed" /\ LoopFree

\* The upstream has sent nothing, the thread is inside vsock.read, 25 s are
\* over and the fetch has neither failed nor been answered
SilentUpstreamWitness ==
  /\ clock = ">25s"
  /\ thread = "read"
  /\ vsockRaw = [avail |-> 0, sent |-> 0, eof |-> FALSE]
  /\ timer = "armed"
  /\ promise = None
  /\ resp = None
  /\ ~fetches[1].tls

SilentUpstreamTlsWitness ==
  /\ clock = ">25s"
  /\ thread = "read"
  /\ vsockRaw = [avail |-> 0, sent |-> 0, eof |-> FALSE]
  /\ timer = "armed"
  /\ promise = None
  /\ resp = None
  /\ fetches[1].tls

\* The timer fired on a free loop and the 502 reply was written back
TimeoutReplyWitness ==
  /\ timer = "fired"
  /\ cur = 1
  /\ resp # None
  /\ Get(resp).status = 502
  /\ \E k \in 1..Len(sent) : sent[k].frame = Get(resp) /\ sent[k].bytes = "all"


\* C22: once the timer of a fetch has fired, the fetch is over: its stream is
\* closed, nothing was read from or written to the stream after that, and
\* when the accept loop has gone on to the next connection no poll of the
\* timed-out fetch is queued and the thread is not inside a read of its stream.
C22_TimedOutFetchAborted ==
  timer = "fired" =>
    /\ duplex.state = "closed"
    /\ late = {}
    /\ cur > 1 => ~duplex.poll /\ thread = "loop"

\* The next connection is being served while the stream of the timed-out
\* fetch is still open and its poll is queued
StalePollWitness ==
  /\ timer = "fired"
  /\ cur > 1
  /\ pc = "handle"
  /\ duplex.state = "open"
  /\ duplex.poll

\* After the timeout and the reply, during a sleep(100) of the accept loop,
\* the thread is inside vsock.read on the stream of the timed-out fetch
LateReadWitness ==
  /\ timer = "fired"
  /\ pc = "sleep"
  /\ thread = "read"
  /\ "read" \in late
  /\ duplex.state = "open"

\* The TLS handshake ends after the timeout and the request is written then
LateWriteWitness ==
  /\ timer = "fired"
  /\ "write" \in late
  /\ httpReq = "written"


\* ------------------------------------------------------------------------
\* The request hash of an attestation
\* ------------------------------------------------------------------------
\* A handler has returned a reply that carries an attestation
AttestedReply ==
  /\ req # None /\ ~Request.isNull
  /\ resp # None
  /\ Get(resp).attestation # None

\* The url, method and mapping each handler passes to attest
HashedRequest ==
  LET f == ParseBody(Request.body) IN
  CASE Handler = "generic" ->
         [url |-> Request.url, method |-> Request.method, headers |-> Request.headers]
    [] Handler = "vies" ->
         IF f.countryCode = "GB"
         THEN [url |-> "https://api.service.hmrc.gov.uk/organisations/vat/check-vat-number/lookup/"
                       \o f.vatNumber,
               method |-> "GET",
               headers |-> << <<"countryCode", f.countryCode>>, <<"vatNumber", f.vatNumber>> >>]
         ELSE [url |-> "https://ec.europa.eu/taxation_customs/vies/services/checkVatService",
               method |-> "POST",
               headers |-> << <<"countryCode", f.countryCode>>, <<"vatNumber", f.vatNumber>> >>]
    [] Handler = "sicae" ->
         [url |-> "http://www.sicae.pt/Consulta.aspx", method |-> "POST",
          headers |-> << <<"nif", f.nif>> >>]
    [] Handler = "stripe" ->
         [url |-> "https://api.stripe.com" \o work.path, method |-> "GET",
          headers |-> << <<"operation", f.operation>>,
                         <<"stripeAccount", IF f.stripeAccount = Undefined THEN ""
                                            ELSE f.stripeAccount>> >>]

\* C23 as stated: in every attestation a handler produces, requestHash is
\* SHA-256(url | method | JSON(headers)) over the url, the method and the
\* headers of the enclave request as received.
C23_RequestHashOfReceivedRequest ==
  AttestedReply =>
    Get(Get(resp).attestation).requestHash =
      Sha256Hex(Request.url \o "|" \o Request.method \o "|" \o JsonStringify(Request.headers))

\* C23 as amended: in every attestation a handler produces, requestHash is
\* SHA-256(url | method | JSON(headers)) over the url, the method and the
\* mapping the handler passes to attest. The generic handler passes those of
\* the enclave request as received, the headers in the caller's order; the
\* custom handlers pass the upstream url they built, the upstream method and
\* the mapping of their input parameters.
C23_RequestHashOfAttestedRequest ==
  AttestedReply =>
    LET h == HashedRequest IN
      Get(Get(resp).attestation).requestHash =
        Sha256Hex(h.url \o "|" \o h.method \o "|" \o JsonStringify(h.headers))

\* The VIES handler attested a POST to the VIES endpoint for a request that
\* came with another url and with headers of its own
C23_Witness ==
  /\ AttestedReply
  /\ Handler = "vies"
  /\ Request.url = "https://api.stripe.com/v1/charges"
  /\ Get(Get(resp).attestation).requestHash =
       Sha256Hex("https://ec.europa.eu/taxation_customs/vies/services/checkVatService"
                 \o "|POST|{\"countryCode\":\"PT\",\"vatNumber\":\"507172230\"}")

\* The generic handler hashed the caller's two headers in the caller's order
GenericRequestHashWitness ==
  /\ AttestedReply
  /\ Handler = "generic"
  /\ Len(Request.headers) = 2
  /\ Get(Get(resp).attestation).requestHash =
       Sha256Hex(Request.url \o "|GET|{\"Host\":\"evil.example\",\"Accept\":\"text/xml\"}")


\* ------------------------------------------------------------------------
\* Input validation of the custom handlers
\* ------------------------------------------------------------------------
\* The custom handler has gone past its validation of the request in `req`
CustomHandled ==
  /\ Handler \in {"vies", "sicae", "stripe"}
  /\ req # None /\ ~Request.isNull
  /\ pc # "handle"

\* The body is not JSON, or breaks the input schema of the service
InvalidInput ==
  LET f == ParseBody(Request.body) IN
    \/ Request.body = Some(BODY_GARBAGE)
    \/ Handler = "vies" /\ (f.countryCode \in {Undefined, ""} \/ f.vatNumber \in {Undefined, ""})
    \/ Handler = "sicae" /\ f.nif \in {Undefined, "", "12AB"}
    \/ Handler = "stripe"
         /\ \/ f.operation \notin {"list_charges", "list_customers", "list_invoices",
                                   "get_payment_intent", "get_account"}
            \/ f.apiKey \in {Undefined, ""}

\* C24: a custom handler (VIES, SICAE, Stripe) answers a request whose body is
\* not valid JSON, or lacks countryCode or vatNumber, or has a nif that is not
\* nine digits, or an operation outside the closed set, or no apiKey, with
\* success = false, status 400 and an error; it starts no fetch and no
\* attestation for it.
C24_InvalidInputIs400 ==
  (CustomHandled /\ InvalidInput) =>
    /\ resp # None
    /\ ~Get(resp).success
    /\ Get(resp).status = 400
    /\ Get(resp).error # None /\ Get(Get(resp).error) # ""
    /\ Get(resp).attestation = None
    /\ fetches = <<>>
    /\ attArgs = None /\ att = None
    /\ nsmCalls = <<>>

\* The SICAE handler refused the nif "12AB" and the 400 reached the caller
C24_Witness ==
  /\ CustomHandled
  /\ Handler = "sicae"
  /\ Request.body = Some(BODY_NIF_BAD)
  /\ Get(resp).status = 400
  /\ fetches = <<>>
  /\ \E k \in 1..Len(sent) : sent[k].frame = Get(resp) /\ sent[k].bytes = "all"

\* Each handler refuses a body that is not JSON, the VIES handler a body
\* without vatNumber, the Stripe handler a body without apiKey
InvalidInputWitness ==
  /\ CustomHandled
  /\ resp # None /\ Get(resp).status = 400
  /\ \/ Handler = "vies" /\ Request.body = Some(BODY_CC_ONLY)
     \/ Handler = "stripe" /\ Request.body = Some(BODY_STRIPE_NOKEY)


\* ------------------------------------------------------------------------
\* Upstream statuses the custom handlers do not accept
\* ------------------------------------------------------------------------
\* The status of the upstream response the handler last received
UpstreamStatus == Get(LastFetch.response).status

\* A custom handler has received a response with a status it requires to be
\* a success, and has returned
UpstreamRefused ==
  /\ Handler \in {"vies", "sicae", "stripe"}
  /\ req # None /\ ~Request.isNull
  /\ UpstreamAnswered
  /\ pc \notin {"fetch", "attest", "nsm"}
  /\ \/ Handler = "vies" /\ work.fields.countryCode # "GB" /\ UpstreamStatus # 200
     \/ Handler = "vies" /\ work.fields.countryCode = "GB" /\ UpstreamStatus \notin {200, 404}
     \/ Handler = "sicae" /\ LastFetch.method = "GET" /\ UpstreamStatus # 200
     \/ Handler = "stripe" /\ UpstreamStatus # 200

\* The error texts that quote an upstream status
StatusErrors(status, body) ==
  { "VIES SOAP error: HTTP " \o Decimal(status),
    "HMRC returned unexpected status " \o Decimal(status),
    "SICAE GET failed: " \o Decimal(status),
    "Stripe API returned status " \o Decimal(status) \o ": " \o body }

\* C25: when an upstream answers with a status a custom handler does not
\* accept (VIES SOAP other than 200, HMRC other than 200 or 404, the SICAE
\* landing GET other than 200, Stripe other than 200), the reply is
\* success = false with status 502, the upstream status quoted in its error,
\* and no attestation.
C25_UpstreamStatusIs502 ==
  UpstreamRefused =>
    /\ resp # None
    /\ ~Get(resp).success
    /\ Get(resp).status = 502
    /\ Get(resp).error # None
    /\ Get(Get(resp).error) \in StatusErrors(UpstreamStatus, Get(LastFetch.response).body)
    /\ Get(resp).attestation = None

\* The statement holds for the VIES SOAP call and for Stripe
SoapAndStripeStatusIs502 ==
  (UpstreamRefused /\ (Handler = "stripe" \/ (Handler = "vies" /\ work.fields.countryCode # "GB"))) =>
    /\ resp # None
    /\ Get(resp).status = 502 /\ ~Get(resp).success
    /\ Get(Get(resp).error) \in StatusErrors(UpstreamStatus, Get(LastFetch.response).body)
    /\ Get(resp).attestation = None
    /\ nsmCalls = <<>>

\* The SICAE handler answers an upstream 500 with status 500
SicaeGetStatusWitness ==
  /\ UpstreamRefused
  /\ Handler = "sicae"
  /\ UpstreamStatus = 500
  /\ Get(resp) = Failure(500, <<>>, "SICAE GET failed: 500")

\* The VIES handler answers an HMRC 500 with an attested valid = 0
HmrcStatusWitness ==
  /\ UpstreamRefused
  /\ Handler = "vies" /\ work.fields.countryCode = "GB"
  /\ UpstreamStatus = 500
  /\ Get(resp).success /\ Get(resp).status = 200
  /\ Get(resp).attestation # None
  /\ \E i \in 1..Len(Get(resp).headers) : Get(resp).headers[i] = <<"x-vies-valid", "false">>


\* ------------------------------------------------------------------------
\* HMRC 404
\* ------------------------------------------------------------------------
\* The VIES handler has answered a GB request that HMRC met with 404, and
\* the NSM gave its document
Hmrc404Answered ==
  /\ Handler = "vies"
  /\ req # None /\ ~Request.isNull
  /\ work.fields.countryCode = "GB"
  /\ UpstreamAnswered /\ UpstreamStatus = 404
  /\ resp # None
  /\ Attested

\* C26: for countryCode "GB" an upstream 404 is no error: the reply is
\* success = true with an attestation over rawBody, and in rawBody the slots
\* of valid (the third, bytes 64..96), name and address are the zero slot;
\* the first two hold countryCode and vatNumber.
C26_Hmrc404IsValidZero ==
  Hmrc404Answered =>
    LET reply == Get(resp)
        f == work.fields
        block == "fe[shortString(" \o f.countryCode \o "),shortString(" \o f.vatNumber
                 \o "),0,0,0]"
    IN  /\ reply.success
        /\ reply.status = 200
        /\ reply.error = None
        /\ reply.rawBody = Base64(block)
        /\ reply.attestation # None
        /\ Get(reply.attestation).responseHash = Sha256Hex(reply.rawBody)
        /\ \E i \in 1..Len(reply.headers) : reply.headers[i] = <<"x-vies-valid", "false">>

\* The reply for {countryCode: "GB", vatNumber: "12/34"} and an HMRC 404
\* was written back whole
C26_Witness ==
  /\ Hmrc404Answered
  /\ Get(LastFetch.response).body = HMRC_NOT_FOUND
  /\ Get(resp).success
  /\ Get(resp).rawBody = Base64("fe[shortString(GB),shortString(12/34),0,0,0]")
  /\ \E k \in 1..Len(sent) : sent[k].frame = Get(resp) /\ sent[k].bytes = "all"


\* ------------------------------------------------------------------------
\* The field-element block
\* ------------------------------------------------------------------------
\* The fields of the schema being encoded
CodecFields == 1..Len(codec.schema)

\* Slot i of the buffer returned
SlotAt(i) == SubSeq(codec.out, 32 * (i - 1) + 1, 32 * i)

\* Field i is a shortString whose input has more than 31 UTF-8 bytes
StringTooLong(i) ==
  /\ codec.schema[i] = "shortString"
  /\ codec.values[i].type = "string"
  /\ Len(Utf8(codec.values[i].s)) > 31

\* Field i is a uint whose input v has v < 0 or v >= p
UintOutOfRange(i) ==
  /\ codec.schema[i] = "uint"
  /\ codec.values[i].type = "integer"
  /\ \/ codec.values[i].neg
     \/ Len(codec.values[i].mag) > 32
     \/ /\ Len(codec.values[i].mag) = 32
        /\ \A k \in 1..32 :
             codec.values[i].mag[k] < BN254_MODULUS[k] =>
               \E j \in 1..(k - 1) : codec.values[i].mag[j] > BN254_MODULUS[j]

\* The bytes of a slot, read as a big-endian integer, are below p: at the
\* first byte where the slot and p differ the slot's byte is the smaller
SlotBelowModulus(slot) ==
  \E k \in 1..32 :
    /\ slot[k] < BN254_MODULUS[k]
    /\ \A j \in 1..(k - 1) : slot[j] = BN254_MODULUS[j]

\* C27: when encodeFieldElements succeeds its output has exactly 32 * |S|
\* bytes and every 32-byte slot, read as a big-endian integer, is strictly
\* below the field modulus p; a shortString input of more than 31 UTF-8
\* bytes, and a uint input v with v < 0 or v >= p, make the call fail.
C27_SlotsBelowModulus ==
  /\ codec.state = "returned" =>
       /\ Len(codec.out) = 32 * Len(codec.schema)
       /\ \A i \in CodecFields : SlotBelowModulus(SlotAt(i))
  /\ (codec.state \in {"returned", "threw"}
      /\ \E i \in CodecFields : StringTooLong(i) \/ UintOutOfRange(i)) =>
       /\ codec.state = "threw"
       /\ codec.out = <<>>

\* A digest of five times p and more and the uint p - 1 were encoded into
\* 64 bytes; the first slot begins 0a e8 a2 f0, the digest less 5 * p
C27_Witness ==
  /\ codec.state = "returned"
  /\ codec.schema = <<"sha256", "uint">>
  /\ codec.values = <<JsString(TEXT_BAR), JsInteger(FALSE, MODULUS_MINUS_ONE)>>
  /\ ~SlotBelowModulus(Sha256(TEXT_BAR))
  /\ Len(codec.out) = 64
  /\ SubSeq(SlotAt(1), 1, 4) = <<10, 232, 162, 240>>
  /\ SlotAt(2) = MODULUS_MINUS_ONE

\* A string of 16 characters and 32 bytes made the call fail
StringTooLongWitness ==
  /\ codec.state = "threw"
  /\ codec.schema = <<"shortString">>
  /\ codec.values = <<JsString(TEXT_16_CHARS_32_BYTES)>>
  /\ codec.error = "shortString exceeds 31 bytes"

\* The uint p itself made the call fail, after a first field was encoded
UintOutOfRangeWitness ==
  /\ codec.state = "threw"
  /\ codec.schema = <<"shortString", "uint">>
  /\ codec.values = <<JsString(TEXT_31_BYTES), JsInteger(FALSE, BN254_MODULUS)>>
  /\ Len(codec.buffers) = 1
  /\ codec.error = "uint out of BN254 range"

\* Field i has no value: null, a missing key or the empty string
AbsentField(i) == codec.values[i] \in Absent

\* Field i is the uint 0
UintZero(i) == codec.schema[i] = "uint" /\ codec.values[i] = JsInteger(FALSE, <<>>)

\* Field i is a shortString with a string that is not empty
NonEmptyShortString(i) ==
  /\ codec.schema[i] = "shortString"
  /\ codec.values[i].type = "string"
  /\ codec.values[i].s # <<>>

\* C28: a field whose input is null, missing or the empty string is encoded
\* as 32 zero bytes whatever its encoding, a uint field of value 0 gives the
\* same all-zero slot, and no non-empty shortString input gives the all-zero
\* slot.
C28_ZeroSlotIsAbsentOrUintZero ==
  codec.state = "returned" =>
    \A i \in CodecFields :
      /\ AbsentField(i) => SlotAt(i) = Zeros(32)
      /\ UintZero(i) => SlotAt(i) = Zeros(32)
      /\ NonEmptyShortString(i) => SlotAt(i) # Zeros(32)

\* The first two parts of C28 hold: absent values and uint 0 give 32 zero
\* bytes
AbsentAndUintZeroAreZeroSlot ==
  codec.state = "returned" =>
    \A i \in CodecFields : AbsentField(i) \/ UintZero(i) => SlotAt(i) = Zeros(32)

\* The non-empty shortStrings that give the all-zero slot are those made of
\* U+0000 only
ZeroSlotShortStringIsNuls ==
  codec.state = "returned" =>
    \A i \in CodecFields :
      NonEmptyShortString(i) =>
        (SlotAt(i) = Zeros(32) <=> \A k \in 1..Len(codec.values[i].s) : codec.values[i].s[k] = 0)

\* null in a sha256 field and 0 in a uint field were encoded into 64 zero bytes
AbsentAndUintZeroWitness ==
  /\ codec.state = "returned"
  /\ codec.schema = <<"sha256", "uint">>
  /\ codec.values = <<JsNull, JsInteger(FALSE, <<>>)>>
  /\ codec.out = Zeros(64)

\* The shortString "\u0000" was encoded into 32 zero bytes
NulStringZeroSlotWitness ==
  /\ codec.state = "returned"
  /\ codec.schema = <<"shortString">>
  /\ codec.values = <<JsString(TEXT_NUL)>>
  /\ codec.out = Zeros(32)

\* C29: decoding the slot of a shortString field (strip the leading zero
\* bytes, read the rest as UTF-8) returns exactly the input string of the
\* field, for every string of at most 31 UTF-8 bytes.
C29_ShortStringRoundTrip ==
  codec.state = "returned" =>
    \A i \in CodecFields :
      (codec.schema[i] = "shortString" /\ codec.values[i].type = "string") =>
        RecoverShortString(SlotAt(i)) = codec.values[i].s

\* The round trip holds for the strings that do not begin with U+0000
RoundTripWithoutLeadingNul ==
  codec.state = "returned" =>
    \A i \in CodecFields :
      (NonEmptyShortString(i) /\ Head(codec.values[i].s) # 0) =>
        RecoverShortString(SlotAt(i)) = codec.values[i].s

\* "\u0000A" was encoded and its slot decodes to "A"
LeadingNulWitness ==
  /\ codec.state = "returned"
  /\ codec.schema = <<"shortString">>
  /\ codec.values = <<JsString(TEXT_NUL_A)>>
  /\ RecoverShortString(SlotAt(1)) = <<65>>

\* A string of 31 bytes in 16 characters and "A\u0000" came back as given
RoundTripWitness ==
  /\ codec.state = "returned"
  /\ codec.schema = <<"shortString", "shortString">>
  /\ codec.values = <<JsString(TEXT_16_CHARS_31_BYTES), JsString(TEXT_A_NUL)>>
  /\ RecoverShortString(SlotAt(1)) = TEXT_16_CHARS_31_BYTES
  /\ RecoverShortString(SlotAt(2)) = TEXT_A_NUL


\* ------------------------------------------------------------------------
\* PCR extraction
\* ------------------------------------------------------------------------
\* requestNsmAttestation was called in this invocation
NsmCalled == nsmCalls # <<>>

\* What the NSM answered to it
NsmAnswer == nsmCalls[Len(nsmCalls)].answer

\* The answer holds an Attestation.document: the ioctl returned, its answer
\* decoded, and the envelope has the document
HasDocument(o) == o \notin {"ioctl-error", "envelope-undecodable", "no-document"}

\* Extracting the PCRs from the document fails: it is no CBOR, no array of
\* at least 4 items, its payload does not decode to a map, or the payload
\* has no pcrs
ExtractionFails(o) ==
  /\ HasDocument(o)
  /\ \/ ~CoseSign1(o).decodes
     \/ ~CoseSign1(o).isArray
     \/ CoseSign1(o).length < 4
     \/ CoseSign1(o).payload # "map"
     \/ CoseSign1(o).pcrs = "missing"

\* attest returned its document
AttestReturned == att # None /\ Get(att).nsmDocument # ""

\* C30: when extracting PCR0..PCR2 from the COSE_Sign1 payload fails, attest
\* still succeeds: the attestation has nsmDocument, the base64 of the
\* document, and pcr0 = pcr1 = pcr2 = "", and the handler replies with it.
\* attest fails only when no Attestation.document came back (a failed ioctl
\* and an envelope that does not decode give none either).
C30_PcrExtractionFailureIsNotFatal ==
  NsmCalled =>
    /\ ExtractionFails(NsmAnswer) =>
         /\ AttestReturned
         /\ Get(att).nsmDocument =
              Base64(DocumentBytes(NsmAnswer, nsmCalls[Len(nsmCalls)].nonce))
         /\ Get(att).pcrs = [pcr0 |-> "", pcr1 |-> "", pcr2 |-> ""]
         /\ resp # None /\ Get(resp).success /\ Get(resp).attestation = att
    /\ HasDocument(NsmAnswer) <=> AttestReturned
    /\ ~AttestReturned => resp # None /\ ~Get(resp).success

\* A COSE_Sign1 of 3 items was answered and the reply with the attestation,
\* its PCRs empty, was written back whole
C30_Witness ==
  /\ NsmCalled
  /\ NsmAnswer = "cose-3-items"
  /\ ExtractionFails(NsmAnswer)
  /\ Get(att).pcrs = NoPcrs
  /\ Get(resp).success
  /\ Get(Get(resp).attestation).nsmDocument # ""
  /\ \E k \in 1..Len(sent) : sent[k].frame = Get(resp) /\ sent[k].bytes = "all"

\* The other ways of failing were met: an undecodable document, a value
\* that is no array, an undecodable payload and a payload without pcrs
UndecodableDocumentWitness == NsmCalled /\ NsmAnswer = "cose-undecodable" /\ AttestReturned

NotAnArrayWitness == NsmCalled /\ NsmAnswer = "cose-not-array" /\ AttestReturned

UndecodablePayloadWitness == NsmCalled /\ NsmAnswer = "payload-undecodable" /\ AttestReturned

MissingPcrsWitness == NsmCalled /\ NsmAnswer = "document-no-pcrs" /\ AttestReturned

\* A document whose pcrs lack index 1 keeps the two it has
PartialPcrsWitness ==
  /\ NsmCalled
  /\ NsmAnswer = "pcrs-without-pcr1"
  /\ Get(att).pcrs = [pcr0 |-> "aa", pcr1 |-> "", pcr2 |-> "cc"]

\* The envelope without a document made attest fail
MissingDocumentWitness ==
  /\ NsmCalled
  /\ NsmAnswer = "no-document"
  /\ ~AttestReturned
  /\ Get(resp).error = Some("NSM response missing Attestation.document")


\* ------------------------------------------------------------------------
\* readExact
\* ------------------------------------------------------------------------
\* The size the running readExact was called with
ReadExactSize == IF rpc = "header" THEN HEADER_SIZE ELSE rlen

\* readExact is in its loop
InReadExact == rpc \in {"header", "payload"}

\* C31: readExact(stream, size) returns exactly size bytes in stream order,
\* looping over short reads; no read takes more than the bytes still missing,
\* so nothing beyond the current frame is consumed; and a zero-length read
\* (EOF) before size bytes have arrived makes it fail with "Connection
\* closed".
C31_ReadExact ==
  /\ [](InReadExact =>
          LET got == ReadExactSize - rneed
              start == IF rpc = "header" THEN 0 ELSE HEADER_SIZE
          IN  /\ rneed > 0
              /\ got >= 0
              /\ RunsLength(rchunks) = got
              /\ got > 0 =>
                   rchunks = <<Run(Framed(Len(wmsgs))[Len(rgot) + 1], start, start + got)>>)
  /\ [][/\ rcount' - rcount <= Min(rneed, READ_CHUNK)
        /\ rcount' # rcount => wire' = DropRuns(wire, rcount' - rcount)
        /\ (InReadExact /\ rpc' \in {"payload", "idle"} /\ rpc' # rpc) =>
             rcount' - rcount = rneed]_vars
  /\ [][(InReadExact /\ wire = <<>> /\ wclosed /\ rgot' # rgot) =>
          /\ rpc' = "failed"
          /\ rgot' = Append(rgot, ReadFailed("Connection closed", rcount))
          /\ rcount' = rcount]_vars

\* A payload arrived in two reads and readMessage returned its value
C31_Witness ==
  /\ rpc = "idle"
  /\ rshort > 0
  /\ Len(rgot) = 1
  /\ rgot[1].ok
  /\ rgot[1].consumed = FrameLength(wmsgs[1])
  /\ wshort = 0

\* The stream ended with part of a payload read: readExact threw
TruncatedPayloadWitness ==
  /\ rpc = "failed"
  /\ rgot # <<>>
  /\ rgot[Len(rgot)].error = "Connection closed"
  /\ rchunks # <<>>
  /\ rneed > 0
  /\ rlen > 0


\* ------------------------------------------------------------------------
\* The accept loop goes on
\* ------------------------------------------------------------------------
\* C32: the accept loop never terminates: a failing accept() is followed by
\* the 100 ms sleep and then by accept() again, and whatever fails while a
\* connection is served, the loop comes back to accept() only from the sleep
\* or from the close() of that connection; in every state the loop has a
\* next step (accept() can be called, or the call it waits for can return).
C32_AcceptLoopGoesOn ==
  /\ [](/\ pc \in {"accept", "sleep", "read", "handle", "fetch", "attest", "nsm", "write",
                    "catch", "close"}
        /\ pc = "accept" /\ Cardinality(Accepted) < MaxConns => ENABLED AcceptOk
        /\ pc = "accept" /\ acceptFails < MaxAcceptFails => ENABLED AcceptFail
        /\ pc = "sleep" => ENABLED SleepDone
        /\ pc \notin {"accept", "sleep"} => ENABLED ServeNext)
  /\ [][/\ acceptFails' # acceptFails => pc = "accept" /\ pc' = "sleep" /\ conn' = conn
        /\ pc = "sleep" => pc' = "accept" /\ conn' = conn
        /\ (pc' = "accept" /\ pc # "accept") =>
             \/ pc = "sleep"
             \/ pc = "close" /\ conn'[cur].state = "closed" /\ conn'[cur].closeCalls = 1
        /\ (pc = "catch" \/ (pc = "write" /\ pc' # "catch")) => pc' = "close"]_vars

\* accept() failed and was retried after the sleep; the connection then
\* accepted failed in every call (read, error reply, close) and the loop is
\* back at accept()
C32_Witness ==
  /\ pc = "accept"
  /\ acceptFails = 1
  /\ cur = 1
  /\ conn[1].state = "closed"
  /\ log = <<"accept", "recv-failed", "error-write-failed", "close-failed">>
  /\ ENABLED AcceptOk


\* ------------------------------------------------------------------------
\* Host and Connection of the serialised request
\* ------------------------------------------------------------------------
\* A header name in lower case (header names are compared without regard to
\* letter case)
LowerCase(k) ==
  CASE k \in {"Host", "host"} -> "host"
    [] k \in {"Connection", "connection"} -> "connection"
    [] k = "Accept" -> "accept"
    [] OTHER -> k

\* The lines of header `name` among the header lines h, in any letter case
LinesNamed(h, name) == {i \in 1..Len(h) : LowerCase(h[i][1]) = name}

\* The allowlisted hostname a fetch was made for: that of the entry whose
\* vsock-proxy port it connected to
FetchHostnames(f) ==
  {Config(service).hosts[j].hostname :
     j \in {k \in 1..Len(Config(service).hosts) :
              Config(service).hosts[k].vsockProxyPort = f.port}}

\* C33: whatever header mapping the caller supplied, the serialised request
\* carries exactly one Host header, its value the allowlisted hostname, and
\* exactly one Connection header, its value close.
C33_OneHostOneConnection ==
  \A i \in 1..Len(fetches) :
    LET h == fetches[i].headers
    IN  /\ Cardinality(LinesNamed(h, "host")) = 1
        /\ \A k \in LinesNamed(h, "host") : h[k][2] \in FetchHostnames(fetches[i])
        /\ Cardinality(LinesNamed(h, "connection")) = 1
        /\ \A k \in LinesNamed(h, "connection") : h[k][2] = "close"

\* What does hold: the lines named exactly Host and Connection are one each
\* and carry the hostname and close, whatever the caller supplied under
\* these exact names
ExactHostAndConnection ==
  \A i \in 1..Len(fetches) :
    LET h == fetches[i].headers
    IN  /\ Cardinality({k \in 1..Len(h) : h[k][1] = "Host"}) = 1
        /\ Cardinality({k \in 1..Len(h) : h[k][1] = "Connection"}) = 1
        /\ \A k \in 1..Len(h) :
             /\ h[k][1] = "Host" => h[k][2] \in FetchHostnames(fetches[i])
             /\ h[k][1] = "Connection" => h[k][2] = "close"

\* The caller's "host: evil.example" went out next to "Host: www.sicae.pt"
LowerCaseHostWitness ==
  /\ fetches # <<>>
  /\ fetches[1].headers =
       << <<"host", "evil.example">>, <<"Host", "www.sicae.pt">>, <<"Connection", "close">> >>

\* The caller's "connection: keep-alive" went out next to "Connection: close",
\* the caller's "Connection" having been overwritten
LowerCaseConnectionWitness ==
  /\ fetches # <<>>
  /\ fetches[1].headers =
       << <<"connection", "keep-alive">>, <<"Connection", "close">>,
          <<"Host", "www.sicae.pt">> >>

\* The caller's "Host: evil.example" was overwritten
ExactHostOverwrittenWitness ==
  /\ fetches # <<>>
  /\ Serving
  /\ Request.headers = << <<"Host", "evil.example">>, <<"Accept", "text/xml">> >>
  /\ fetches[1].headers =
       << <<"Host", "www.sicae.pt">>, <<"Accept", "text/xml">>, <<"Connection", "close">> >>

\* ------------------------------------------------------------------------
\* The SICAE form: one GET, the POSTs in the order of the landing page
\* ------------------------------------------------------------------------

SicaeServing == Handler = "sicae" /\ Serving /\ fetches # <<>>

\* the landing page the GET brought back
LandingHtml == Get(fetches[1].response).body

\* The candidate variants as the landing page orders them: the ones whose
\* field name, with _ for $, is on the page, then the others, each group in
\* the order of FORM_VARIANTS
VariantOrder(html) ==
  SelectSeq(FORM_VARIANTS, LAMBDA v : Includes(html, v.idField))
  \o SelectSeq(FORM_VARIANTS, LAMBDA v : ~Includes(html, v.idField))

\* the POSTs of this invocation, in order
SicaePosts == Tail(fetches)

\* the upstream answer to a POST ends the loop over the variants
EndsTheLoop(r) ==
  /\ r.status = 200
  /\ \/ IsSome(ParseSicaeResults(r.body))
     \/ Includes(r.body, "ClassErro")
     \/ Includes(r.body, "gridMain")

YieldsResult(r) == r.status = 200 /\ IsSome(ParseSicaeResults(r.body))

\* every POST was answered and none of the answers held a result
NoPostYieldedResult ==
  /\ SicaePosts # <<>>
  /\ \A i \in 1..Len(SicaePosts) :
       /\ SicaePosts[i].state = "done"
       /\ ~YieldsResult(Get(SicaePosts[i].response))

\* C34: a SICAE request makes one GET at most, then one POST per variant in
\* the order the landing page gives, no POST after one whose answer held a
\* result or showed the form was processed, never more POSTs than variants;
\* when no POST held a result the reply is the 404 failure with an empty
\* rawBody and nothing is attested.
C34_SicaePostsInOrderThen404 ==
  SicaeServing =>
    /\ fetches[1].method = "GET"
    /\ \A i \in 2..Len(fetches) : fetches[i].method = "POST"
    /\ Len(SicaePosts) <= Len(FORM_VARIANTS)
    /\ SicaePosts # <<>> =>
         /\ fetches[1].state = "done"
         /\ Get(fetches[1].response).status = 200
         /\ \A i \in 1..Len(SicaePosts) :
              /\ SicaePosts[i].path = "/Consulta.aspx"
              /\ SicaePosts[i].body =
                   Some(BuildFormBody(ParseBody(Request.body).nif,
                                      Get(ViewStateOf(LandingHtml)),
                                      Get(EventValidationOf(LandingHtml)),
                                      VariantOrder(LandingHtml)[i]))
         /\ \A i \in 1..(Len(SicaePosts) - 1) :
              /\ SicaePosts[i].state = "done"
              /\ ~EndsTheLoop(Get(SicaePosts[i].response))
    /\ (NoPostYieldedResult /\ pc = "write") =>
         /\ IsSome(resp)
         /\ Get(resp).success = FALSE
         /\ Get(resp).status = 404
         /\ Get(resp).rawBody = ""
         /\ Get(resp).attestation = None
         /\ attArgs = None
         /\ nsmCalls = <<>>

\* every variant was posted, the second one first as the page names it, no
\* answer held a result, and the reply is the 404
C34_Witness ==
  /\ SicaeServing
  /\ pc = "write"
  /\ Len(SicaePosts) = Len(FORM_VARIANTS)
  /\ LandingHtml = SICAE_LANDING
  /\ SicaePosts[1].body =
       Some(BuildFormBody("513032525", "VS1", "EV1", FORM_VARIANTS[2]))
  /\ SicaePosts[2].body =
       Some(BuildFormBody("513032525", "VS1", "EV1", FORM_VARIANTS[1]))
  /\ NoPostYieldedResult
  /\ Get(resp).status = 404

\* the page names the first variant: it is posted first
FirstVariantFirstWitness ==
  /\ SicaeServing
  /\ Len(SicaePosts) = 2
  /\ LandingHtml = SICAE_LANDING_IPNIPC
  /\ SicaePosts[1].body =
       Some(BuildFormBody("513032525", "VS1", "EV1", FORM_VARIANTS[1]))

\* the first answer shows the form was processed: one POST, then the 404
ProcessedPageEndsLoopWitness ==
  /\ SicaeServing
  /\ pc = "write"
  /\ Len(SicaePosts) = 1
  /\ Get(SicaePosts[1].response).body = SICAE_NO_RESULT
  /\ Get(resp).status = 404

\* the first answer holds a result: one POST, then the attestation
ResultEndsLoopWitness ==
  /\ SicaeServing
  /\ Len(SicaePosts) = 1
  /\ SicaePosts[1].state = "done"
  /\ YieldsResult(Get(SicaePosts[1].response))
  /\ IsSome(attArgs)

\* ------------------------------------------------------------------------
\* VsockDuplex, the read side
\* ------------------------------------------------------------------------

\* vsock reads followed on one duplex
MaxReads == 5

\* The sizes the Readable passes to _read: its highWaterMark and larger ones
ReadSizes == {16384, 65536, 131072}

\* A duplex just constructed: reading = false, nothing queued
NewDuplex == [NoReader EXCEPT !.state = "open"]

\* _read with no test of this.reading
ReadCallNoGuard ==
  /\ reader.state = "open"
  /\ ~reader.awaiting
  /\ reader.reads < MaxReads
  /\ \E size \in ReadSizes :
       reader' = [reader EXCEPT !.awaiting = TRUE, !.paused = FALSE, !.reading = TRUE,
                                !.size = size, !.immediates = @ + 1, !.chains = @ + 1]
  /\ UNCHANGED <<loopVars, frameVars, parentVars, fetchVars, codec, dechunk>>

\* The Readable calls _read(size): it does so only when no _read of its own
\* is outstanding (a push answers it) and the stream has neither ended nor
\* been destroyed. `if (this.reading) return; this.reading = true; ...
\* setImmediate(poll)`
ReadCall ==
  /\ reader.state = "open"
  /\ ~reader.awaiting
  /\ reader.reads < MaxReads
  /\ \E size \in ReadSizes :
       reader' =
         IF reader.reading
         THEN [reader EXCEPT !.awaiting = TRUE, !.paused = FALSE]
         ELSE [reader EXCEPT !.awaiting = TRUE, !.paused = FALSE, !.reading = TRUE,
                             !.size = size, !.immediates = @ + 1, !.chains = @ + 1]
  /\ UNCHANGED <<loopVars, frameVars, parentVars, fetchVars, codec, dechunk>>

\* what poll asks of the socket: Math.min(size, 65536)
AskedSize(size) == IF size < 65536 THEN size ELSE 65536

\* poll runs off the immediate queue, vsock.read returns a chunk: push(chunk)
\* answers the Readable's _read and says whether it wants more. More:
\* setImmediate(poll); no more: reading = false
PollChunk ==
  /\ reader.state = "open"
  /\ reader.immediates > 0
  /\ reader.reads < MaxReads
  /\ \E more \in BOOLEAN :
       reader' =
         IF more
         THEN [reader EXCEPT !.reads = @ + 1, !.pushed = @ + 1, !.awaiting = FALSE,
                             !.asked = AskedSize(reader.size)]
         ELSE [reader EXCEPT !.reads = @ + 1, !.pushed = @ + 1, !.awaiting = FALSE,
                             !.asked = AskedSize(reader.size),
                             !.immediates = @ - 1, !.reading = FALSE, !.paused = TRUE]
  /\ UNCHANGED <<loopVars, frameVars, parentVars, fetchVars, codec, dechunk>>

\* vsock.read returns an empty chunk: push(null) ends the stream, reading =
\* false, no further immediate
PollEof ==
  /\ reader.state = "open"
  /\ reader.immediates > 0
  /\ reader' = [reader EXCEPT !.reads = @ + 1, !.asked = AskedSize(reader.size),
                              !.immediates = @ - 1, !.reading = FALSE,
                              !.awaiting = FALSE, !.state = "ended"]
  /\ UNCHANGED <<loopVars, frameVars, parentVars, fetchVars, codec, dechunk>>

\* vsock.read throws: this.destroy(err); reading stays true
PollThrow ==
  /\ reader.state = "open"
  /\ reader.immediates > 0
  /\ reader' = [reader EXCEPT !.reads = @ + 1, !.asked = AskedSize(reader.size),
                              !.immediates = @ - 1, !.state = "destroyed"]
  /\ UNCHANGED <<loopVars, frameVars, parentVars, fetchVars, codec, dechunk>>

\* The owner destroys the stream (_destroy: vsock.close()); a queued poll
\* stays queued
DestroyDuplex ==
  /\ reader.state = "open"
  /\ reader' = [reader EXCEPT !.state = "destroyed"]
  /\ UNCHANGED <<loopVars, frameVars, parentVars, fetchVars, codec, dechunk>>

\* The poll that was queued when the stream was destroyed: vsock.read on the
\* closed socket throws, destroy(err) on a destroyed stream does nothing
PollDestroyed ==
  /\ reader.state = "destroyed"
  /\ reader.immediates > 0
  /\ reader' = [reader EXCEPT !.reads = @ + 1, !.asked = AskedSize(reader.size),
                              !.immediates = @ - 1]
  /\ UNCHANGED <<loopVars, frameVars, parentVars, fetchVars, codec, dechunk>>

DuplexNext ==
  \/ ReadCall
  \/ PollChunk
  \/ PollEof
  \/ PollThrow
  \/ DestroyDuplex
  \/ PollDestroyed

DuplexSpecInit ==
  /\ LoopInit /\ service = "vies" /\ FrameInit /\ ParentInit /\ FetchInit
  /\ codec = NoCodec /\ dechunk = NoDechunk
  /\ reader = NewDuplex

DuplexSpec == DuplexSpecInit /\ [][DuplexNext]_vars

\* C35: one poll chain at most (a _read while one is active queues nothing),
\* every vsock read is made by a poll taken off the immediate queue, one read
\* per callback; after a push that signalled backpressure nothing is queued
\* and nothing is read until the next _read; after end of stream the stream
\* is ended, nothing is queued and nothing is read.
C35_OnePollChain ==
  /\ [](/\ reader.immediates <= 1
        /\ reader.paused => reader.immediates = 0 /\ ~reader.reading
        /\ reader.state = "ended" => reader.immediates = 0 /\ ~reader.reading)
  /\ [][/\ reader'.reads # reader.reads =>
             /\ reader.immediates = 1
             /\ reader'.reads = reader.reads + 1
             /\ reader'.immediates <= 1
             /\ ~reader.paused
             /\ reader.state # "ended"
             /\ reader'.asked = AskedSize(reader.size)
        /\ (reader.reading /\ reader'.awaiting /\ ~reader.awaiting) =>
             /\ reader'.immediates = reader.immediates
             /\ reader'.chains = reader.chains
        /\ reader.state = "ended" => reader' = reader]_vars

\* a chain stopped on backpressure, the next _read started the second chain
C35_Witness ==
  /\ reader.chains = 2
  /\ reader.immediates = 1
  /\ reader.pushed >= 2
  /\ reader.state = "open"

\* a _read arrived while the chain was active and queued nothing
ReadWhileReadingWitness ==
  /\ reader.chains = 1
  /\ reader.pushed >= 1
  /\ reader.awaiting
  /\ reader.reading
  /\ reader.immediates = 1

\* backpressure: the chain stopped, nothing is queued
BackpressureWitness ==
  /\ reader.paused
  /\ reader.pushed >= 2
  /\ reader.state = "open"

\* end of stream after some chunks
EndOfStreamWitness ==
  /\ reader.state = "ended"
  /\ reader.pushed >= 2

\* ------------------------------------------------------------------------
\* decodeChunked, byte by byte
\* ------------------------------------------------------------------------

\* longest body enumerated byte by byte
MaxBody == 5

\* parts pushed in one decodeChunked call that the model follows
MaxParts == 4

CR == 13
LF == 10

\* The bytes the enumerated bodies are made of: - f 0 1 CR LF g
BodyBytes == {45, 102, 48, 49, CR, LF, 103}

\* "1\r\ng\r\n0\r\n\r\n": one chunk and the terminal chunk
BODY_ONE_CHUNK == <<49, CR, LF, 103, CR, LF, 48, CR, LF, CR, LF>>
\* "1\r\ng\r\n": no terminal chunk
BODY_NO_TERMINAL == <<49, CR, LF, 103, CR, LF>>
\* "ff\r\ng": the chunk is shorter than its size line says
BODY_TRUNCATED == <<102, 102, CR, LF, 103>>
\* "g1\r\ng\r\n": the size line is not hexadecimal
BODY_NOT_HEX == <<103, 49, CR, LF, 103, CR, LF>>
\* "-ff\r\n": the size line parses to -255
BODY_MINUS_FF == <<45, 102, 102, CR, LF>>
\* "2\r\ngg\r\n-1\r\ng\r\n0\r\n\r\n": a negative size after a good chunk
BODY_MINUS_ONE == <<50, CR, LF, 103, 103, CR, LF, 45, 49, CR, LF, 103, CR, LF, 48, CR, LF, CR, LF>>

Bodies36 ==
  UNION {[1..n -> BodyBytes] : n \in 0..MaxBody}
  \cup {BODY_ONE_CHUNK, BODY_NO_TERMINAL, BODY_TRUNCATED, BODY_NOT_HEX, BODY_MINUS_FF,
        BODY_MINUS_ONE}

\* raw.indexOf(crlf, byteOffset): a negative byteOffset counts from the end
\* and stops at 0; -1 when "\r\n" does not occur at or after it
IndexOfCrlf(raw, byteOffset) ==
  LET from == IF byteOffset < 0
              THEN (IF Len(raw) + byteOffset > 0 THEN Len(raw) + byteOffset ELSE 0)
              ELSE byteOffset
      hits == {i \in from..(Len(raw) - 2) : raw[i + 1] = CR /\ raw[i + 2] = LF}
  IN  IF hits = {} THEN -1 ELSE CHOOSE i \in hits : \A j \in hits : i <= j

\* adjustOffset of Buffer.subarray: NaN is 0, a negative offset counts from
\* the end, everything is clamped to 0..length
AdjustOffset(n, length) ==
  IF n.nan THEN 0
  ELSE IF n.v < 0 THEN (IF n.v + length > 0 THEN n.v + length ELSE 0)
  ELSE IF n.v < length THEN n.v ELSE length

\* raw.subarray(start, end)
Subarray(raw, start, end) ==
  LET s0 == AdjustOffset(start, Len(raw))
      e0 == AdjustOffset(end, Len(raw))
  IN  IF e0 > s0 THEN SubSeq(raw, s0 + 1, e0) ELSE <<>>

Num(v) == [nan |-> FALSE, v |-> v]
NaN == [nan |-> TRUE, v |-> 0]

\* buf.toString('ascii'): the low seven bits of every byte
Ascii(buf) == [i \in 1..Len(buf) |-> buf[i] % 128]

WhiteSpace == {9, 10, 11, 12, 13, 32}

\* String.prototype.trim
RECURSIVE TrimStart(_)
TrimStart(str) ==
  IF str # <<>> /\ Head(str) \in WhiteSpace THEN TrimStart(Tail(str)) ELSE str

RECURSIVE TrimEnd(_)
TrimEnd(str) ==
  IF str # <<>> /\ str[Len(str)] \in WhiteSpace
  THEN TrimEnd(SubSeq(str, 1, Len(str) - 1)) ELSE str

Trim(str) == TrimEnd(TrimStart(str))

IsHexDigit(c) == c \in 48..57 \/ c \in 65..70 \/ c \in 97..102

HexValue(c) == IF c \in 48..57 THEN c - 48 ELSE IF c \in 65..70 THEN c - 55 ELSE c - 87

\* the leading hexadecimal digits of str, as a number
RECURSIVE HexPrefix(_, _, _)
HexPrefix(str, acc, digits) ==
  IF str = <<>> \/ ~IsHexDigit(Head(str)) THEN [value |-> acc, digits |-> digits]
  ELSE HexPrefix(Tail(str), 16 * acc + HexValue(Head(str)), digits + 1)

\* parseInt(str, 16): leading white space, a sign, 0x or 0X, then the
\* longest run of hexadecimal digits; NaN when there is none
ParseInt16(str) ==
  LET s1 == TrimStart(str)
      neg == s1 # <<>> /\ Head(s1) = 45
      s2 == IF s1 # <<>> /\ Head(s1) \in {43, 45} THEN Tail(s1) ELSE s1
      s3 == IF Len(s2) >= 2 /\ s2[1] = 48 /\ s2[2] \in {120, 88} THEN Tail(Tail(s2)) ELSE s2
      p == HexPrefix(s3, 0, 0)
  IN  IF p.digits = 0 THEN NaN ELSE Num(IF neg THEN 0 - p.value ELSE p.value)

\* One pass through the body of the while loop at `offset`: break, or the
\* part pushed and the next offset
Iteration(raw, offset) ==
  LET lineEnd == IndexOfCrlf(raw, offset)
      chunkSizeHex == Trim(Ascii(Subarray(raw, Num(offset), Num(lineEnd))))
      chunkSize == ParseInt16(chunkSizeHex)
      chunkStart == lineEnd + 2
      chunkEnd == IF chunkSize.nan THEN NaN ELSE Num(chunkStart + chunkSize.v)
  IN  IF lineEnd = -1 THEN [break |-> TRUE, size |-> NaN, part |-> <<>>, offset |-> Num(offset)]
      ELSE IF ~chunkSize.nan /\ chunkSize.v = 0
      THEN [break |-> TRUE, size |-> chunkSize, part |-> <<>>, offset |-> Num(offset)]
      ELSE [break |-> FALSE, size |-> chunkSize,
            part |-> Subarray(raw, Num(chunkStart), chunkEnd),
            offset |-> IF chunkEnd.nan THEN NaN ELSE Num(chunkEnd.v + 2)]

\* while (offset < raw.length): false for NaN
LoopTest == ~dechunk.nan /\ dechunk.offset < Len(dechunk.raw)

\* An iteration that neither breaks nor leaves the loop test unevaluated:
\* parts.push(raw.subarray(chunkStart, chunkEnd)); offset = chunkEnd + 2
DechunkIterate ==
  /\ dechunk.state = "loop"
  /\ LoopTest
  /\ Len(dechunk.parts) < MaxParts
  /\ LET it == Iteration(dechunk.raw, dechunk.offset)
     IN  /\ ~it.break
         /\ dechunk' = [dechunk EXCEPT !.parts = Append(@, it.part),
                                       !.offset = it.offset.v, !.nan = it.offset.nan,
                                       !.size = it.size,
                                       !.seen = @ \cup {dechunk.offset}]
  /\ UNCHANGED <<loopVars, frameVars, parentVars, fetchVars, codec, reader>>

\* The loop ends, by its test or by a break: return Buffer.concat(parts)
DechunkReturn ==
  /\ dechunk.state = "loop"
  /\ \/ ~LoopTest
     \/ Iteration(dechunk.raw, dechunk.offset).break
  /\ dechunk' = [dechunk EXCEPT !.state = "returned", !.out = Concat(dechunk.parts)]
  /\ UNCHANGED <<loopVars, frameVars, parentVars, fetchVars, codec, reader>>

DechunkNext == DechunkIterate \/ DechunkReturn

DechunkSpecInit ==
  /\ LoopInit /\ service = "vies" /\ FrameInit /\ ParentInit /\ FetchInit
  /\ codec = NoCodec /\ reader = NoReader
  /\ \E raw \in Bodies36 : dechunk = [NoDechunk EXCEPT !.raw = raw, !.state = "loop"]

DechunkSpec == DechunkSpecInit /\ [][DechunkNext]_vars

\* the loop stands at an offset at which an earlier iteration of this call
\* started: the body depends on raw and offset alone, so it will come back
\* here again and again
Revisits == dechunk.state = "loop" /\ LoopTest /\ dechunk.offset \in dechunk.seen

\* C36: decodeChunked returns after finitely many steps on every body. The
\* loop is a function of raw and offset alone, so returning means that no
\* iteration starts at an offset an earlier iteration started at.
C36_DecodeChunkedReturns == ~Revisits

\* "-ff\r\n": the second iteration starts where the first did
MinusFfWitness ==
  /\ dechunk.raw = BODY_MINUS_FF
  /\ dechunk.size = Num(-255)
  /\ Revisits
  /\ dechunk.offset = -248

\* With size lines that parse to a positive number or to NaN every iteration
\* moves the offset forward (or to NaN), and the call returns.
NonNegativeSizesAdvance ==
  [][(/\ Len(dechunk'.parts) > Len(dechunk.parts)
       /\ (dechunk'.size.nan \/ dechunk'.size.v > 0))
     => (dechunk'.nan \/ dechunk'.offset > dechunk.offset)]_vars

\* the well-formed body is decoded to its one chunk
OneChunkDecodedWitness ==
  /\ dechunk.raw = BODY_ONE_CHUNK
  /\ dechunk.state = "returned"
  /\ dechunk.out = <<103>>

\* no terminal chunk, a truncated chunk, a size line that is not hexadecimal:
\* the call returns
NoTerminalWitness ==
  /\ dechunk.raw = BODY_NO_TERMINAL /\ dechunk.state = "returned" /\ dechunk.out = <<103>>

TruncatedChunkWitness ==
  /\ dechunk.raw = BODY_TRUNCATED /\ dechunk.state = "returned" /\ dechunk.out = <<103>>

NotHexWitness ==
  /\ dechunk.raw = BODY_NOT_HEX /\ dechunk.state = "returned" /\ dechunk.out = <<>>

\* ------------------------------------------------------------------------
\* One reply frame per connection
\* ------------------------------------------------------------------------

\* the writeMessage calls on the current connection that put bytes on it
FramesOnTheWire == {k \in 1..Len(sent) : sent[k].bytes # "none"}

\* C37: on a connection the enclave puts the bytes of one frame at most: no
\* writeMessage puts bytes on a connection on which an earlier one already
\* did, so the status-500 frame never follows a part of the reply frame.
C37_OneReplyFrame == Cardinality(FramesOnTheWire) <= 1

\* Nothing is written after a frame that went out whole, and there are two
\* writeMessage calls at most, the second one with the status-500 frame.
NothingAfterWholeFrame ==
  /\ Len(sent) <= 2
  /\ \A k \in 1..Len(sent) : sent[k].bytes = "all" => k = Len(sent)
  /\ Len(sent) = 2 => sent[2].frame.status = 500 /\ sent[1].bytes # "all"

\* a part of the reply frame, then the whole status-500 frame
PartialThenErrorFrameWitness ==
  /\ Len(sent) = 2
  /\ sent[1].frame = Get(resp)
  /\ sent[1].bytes = "part"
  /\ sent[2].frame = ErrorResponse("vsock write failed")
  /\ sent[2].bytes = "all"

\* ------------------------------------------------------------------------
\* The loop of writeMessage
\* ------------------------------------------------------------------------

\* a turn of the loop of writeMessage in which stream.write accepted nothing
ZeroWrite == wpc = "writing" /\ wshort' # wshort /\ woff' = woff

\* C38: writeMessage returns or throws whatever stream.write answers. The
\* loop's state is its offset: a turn that leaves the offset where it was and
\* stays in the loop offers the same bytes again, and does so for as long as
\* the stream accepts nothing. So after a write that accepted 0 bytes the
\* call must be over.
C38_WriteMessageTerminates == [][ZeroWrite => wpc' = "idle"]_vars

\* Every write that accepts something moves the offset forward, never past
\* the end of the frame, and the call returns when the offset reaches it.
PositiveWritesAdvance ==
  /\ [](wpc = "writing" => woff < FrameLength(wmsgs[CurMsg]))
  /\ [][(wpc = "writing" /\ woff' # woff /\ wmsgs' = wmsgs) =>
          /\ woff' > woff
          /\ woff' <= FrameLength(wmsgs[CurMsg])
          /\ (woff' = FrameLength(wmsgs[CurMsg])) = (wpc' = "idle")]_vars

\* stream.write accepted nothing of the frame, the loop is about to offer
\* the same bytes again
ZeroWriteWitness ==
  /\ wpc = "writing"
  /\ woff = 0
  /\ wshort = 1
  /\ wire = <<>>
  /\ wres[CurMsg] = ""

\* ------------------------------------------------------------------------
\* sendToEnclave settles once
\* ------------------------------------------------------------------------

Started(i) == procs[i].phase # "none"
Settled(i) == IsSome(procs[i].outcome)

\* everything collected from the helper's stdout holds a whole frame whose
\* payload is JSON
CompleteFrame(data) ==
  /\ RunsLength(data) >= HEADER_SIZE
  /\ RunsLength(data) >= HEADER_SIZE + ReadUInt32BE(data)
  /\ JsonParse(TakeRuns(DropRuns(data, HEADER_SIZE), ReadUInt32BE(data))) # None

TimedOut == Rejected("Enclave request timed out")

\* C39: a sendToEnclave call that is not settled has its timer armed, and a
\* settled one has it cleared or fired; once settled the outcome stays what
\* it is whatever event comes later; it is resolved only from the 'end' of a
\* stdout that held a whole frame of JSON, with that JSON; the step that
\* settles it is the timer's, which kills the helper and rejects with the
\* timeout, or one that clears the timer.
C39_SettlesOnce ==
  /\ [](\A i \in CallIds :
          Started(i) =>
            /\ Settled(i) <=> procs[i].timer # "armed"
            /\ procs[i].timer = "fired" =>
                 /\ procs[i].outClosed
                 /\ IsSome(procs[i].code)
            /\ (Settled(i) /\ Get(procs[i].outcome).ok) =>
                 /\ procs[i].ended
                 /\ procs[i].timer = "cleared"
                 /\ CompleteFrame(procs[i].chunks)
                 /\ Get(procs[i].outcome) = ParseEnclaveResponse(procs[i].chunks)
            /\ (Settled(i) /\ procs[i].ended /\ ~CompleteFrame(procs[i].chunks)) =>
                 ~Get(procs[i].outcome).ok)
  /\ [][\A i \in CallIds :
          /\ Settled(i) => procs'[i].outcome = procs[i].outcome
          /\ (Started(i) /\ ~Settled(i) /\ IsSome(procs'[i].outcome)) =>
               IF procs'[i].timer = "fired"
               THEN /\ procs'[i].outcome = Some(TimedOut)
                    /\ procs'[i].outClosed
               ELSE /\ procs'[i].timer = "cleared"
                    /\ procs'[i].outcome # Some(TimedOut)]_vars

\* the timer settled the call and killed the helper; the 'end' of a stdout
\* that held a whole frame, and 'close', came afterwards
C39_Witness ==
  \E i \in CallIds :
    /\ procs[i].outcome = Some(TimedOut)
    /\ procs[i].timer = "fired"
    /\ procs[i].ended
    /\ procs[i].closed
    /\ CompleteFrame(procs[i].chunks)

\* resolved from a whole frame, the timer cleared
ResolvedWitness ==
  \E i \in CallIds :
    /\ Settled(i)
    /\ Get(procs[i].outcome).ok
    /\ procs[i].timer = "cleared"
    /\ procs[i].closed

\* socat could not connect: 'end' rejects with the incomplete response, and
\* the 'close' with code 1 that follows changes nothing
CloseAfterEndWitness ==
  \E i \in CallIds :
    /\ procs[i].outcome = Some(Rejected("Incomplete response from enclave"))
    /\ procs[i].closed
    /\ procs[i].code = Some(1)
    /\ procs[i].timer = "cleared"

\* spawn failure
SpawnFailedWitness ==
  \E i \in CallIds :
    /\ procs[i].outcome = Some(Rejected("socat spawn failed"))
    /\ procs[i].timer = "cleared"

\* a truncated frame
TruncatedFrameWitness ==
  \E i \in CallIds :
    /\ procs[i].outcome = Some(Rejected("Truncated response"))
    /\ procs[i].timer = "cleared"

\* ------------------------------------------------------------------------
\* apiEndpoint and the attested URL
\* ------------------------------------------------------------------------

\* the handler has called attest for the fetch it made last
Attesting == Serving /\ IsSome(attArgs) /\ fetches # <<>>

\* the URL handed to attest, as new URL(url) splits it
AttestedUrl == ParseUrl(Get(attArgs).url)

\* C40: the apiEndpoint of an attestation is hostname followed by path,
\* without the query string, of the URL the handler hands to attest (the one
\* hashed into requestHash), and that path with its query string is what was
\* requested upstream, on that host.
C40_ApiEndpointOfAttestedUrl ==
  Attesting =>
    /\ AttestedUrl.ok
    /\ Get(attArgs).apiEndpoint = AttestedUrl.hostname \o AttestedUrl.pathname
    /\ LastFetch.path = AttestedUrl.pathname \o AttestedUrl.search
    /\ IsSome(att) =>
         /\ Get(att).apiEndpoint = Get(attArgs).apiEndpoint
         /\ Get(att).requestHash =
              RequestHash(Get(attArgs).url, Get(attArgs).apiMethod,
                          Get(attArgs).requestHeaders)

\* The apiEndpoint is always the host and the path, without the query
\* string, of the request that went upstream.
ApiEndpointOfRequestedPath ==
  Attesting =>
    /\ Get(attArgs).apiEndpoint \o AttestedUrl.search
         = HostHeader(LastFetch.headers) \o LastFetch.path
    /\ IsSome(att) => Get(att).apiEndpoint = Get(attArgs).apiEndpoint

\* Whenever the vatNumber is not changed by encodeURIComponent, and in every
\* other handler, the attested URL and the endpoint agree.
AgreeUnlessEncoded ==
  (Attesting /\ ~(Handler = "vies" /\ work.fields.countryCode = "GB"
                                  /\ EncodeURIComponent(work.fields.vatNumber)
                                       # work.fields.vatNumber)) =>
    /\ AttestedUrl.ok
    /\ Get(attArgs).apiEndpoint = AttestedUrl.hostname \o AttestedUrl.pathname
    /\ LastFetch.path = AttestedUrl.pathname \o AttestedUrl.search

\* GB with a vatNumber that encodeURIComponent changes: the request went to
\* the encoded path, the URL attested has the raw one
RawVatNumberAttestedWitness ==
  /\ Attesting
  /\ IsSome(att)
  /\ LastFetch.path = "/organisations/vat/check-vat-number/lookup/12%2F34"
  /\ Get(attArgs).apiEndpoint
       = "api.service.hmrc.gov.uk/organisations/vat/check-vat-number/lookup/12%2F34"
  /\ Get(attArgs).url
       = "https://api.service.hmrc.gov.uk/organisations/vat/check-vat-number/lookup/12/34"

\* a Stripe list with a query string: the endpoint leaves the query out
QueryLeftOutWitness ==
  /\ Attesting
  /\ Get(attArgs).url = "https://api.stripe.com/v1/charges?limit=3"
  /\ Get(attArgs).apiEndpoint = "api.stripe.com/v1/charges"
  /\ LastFetch.path = "/v1/charges?limit=3"

====
